---- MODULE Spec2Model ----
(***************************************************************************)
(* The BlackArch tool store shared by the Loader (generate_db.py) and the  *)
(* Browser (bapanel.py): three SQLite tables, the Loader's batch upsert    *)
(* (update_database), the Browser's JSON export and import                 *)
(* (export_tools_to_json, import_from_json) and the transaction each       *)
(* writer runs its statements in.                                          *)
(***************************************************************************)
EXTENDS Integers, Sequences, FiniteSets, TLC

VARIABLES
    db,     \* the committed content of blackarch_tools.db (what a new connection reads)
    now,    \* int(time.time())
    op,     \* the call that is running or ran last: "none", "import", "reimport", "roundtrip", "loader"
    ret,    \* "none" while it runs, then how it ended: the value returned ("True", "False", "None"),
            \* the exception that left the call, or "killed"
    pre,    \* db when that call started
    conn,   \* its connection: the store as the connection sees it, the local `exists`, a raised exception
    arg,    \* the Loader's locals: batch start i, scraped_descriptions, current_time
    doc,    \* the 'tools' list of the JSON document, as far as the model keeps it
    pos,    \* the loop's position: in the document's 'tools' list, or in the batch
    cur,    \* the loop variable: the tool record (import) or the tool_data (Loader)
    prog,   \* the statements of this iteration
    ip,     \* how many of them have been executed
    file,   \* blackarch_tools.db in the file system: whether it exists, and the tables it has
    out,    \* what the last query, export or command of the Browser (or batch of main()) gave
    output, \* extract_tool_details: the output of pacman -Si, line by line
    details,        \* extract_tool_details: the record it builds
    current_field,  \* extract_tool_details: the list field that was opened last
    reader  \* a Browser process next to the writer: the query it is in and what it has read

\* the variables of the store file, of the Browser's queries and of the parser
qvars == <<file, out, output, details, current_field, reader>>

vars == <<db, now, op, ret, pre, conn, arg, doc, pos, cur, prog, ip,
          file, out, output, details, current_field, reader>>

----------------------------------------------------------------------------
(* Bounds of the model *)

\* the clock runs from 0 to MaxTime
MaxTime == 1
\* tool records per imported document
MaxDocLen == 2
\* tools per Loader batch (main() uses 50; the model scales the batch down)
batch_size == 2

----------------------------------------------------------------------------
(* Values *)

\* SQL NULL, JSON null, Python None
NULL == "<NULL>"

ToolNames == {"a", "b"}

\* the sentinel of extract_tool_details and update_database
Uncategorized == "blackarch-uncategorized"

\* group.startswith('blackarch-') over the group names of the model
StartsWithBlackarch(group) ==
    group \in {"blackarch-web", "blackarch-scan", "blackarch-uncategorized"}

\* dict.get(key, default)
Get(d, key, default) == IF key \in DOMAIN d THEN d[key] ELSE default

\* a variant that reads the column's name instead of the document's key
OptionalFlagWrongKey(dep) ==
    IF "is_optional" \in DOMAIN dep /\ dep["is_optional"] = TRUE THEN 1 ELSE 0

\* 1 if dep.get('optional') else 0
OptionalFlag(dep) == IF "optional" \in DOMAIN dep /\ dep["optional"] = TRUE THEN 1 ELSE 0

\* bool(row[1]) of an is_optional column
Bool(n) == n # 0

\* f"{tool_name} --help || man {tool_name}"
HelpCommand(tool_name) ==
    CASE tool_name = "a" -> "a --help || man a"
      [] tool_name = "b" -> "b --help || man b"
      [] tool_name = "c" -> "c --help || man c"
      [] tool_name = "d" -> "d --help || man d"

----------------------------------------------------------------------------
(* The store: init_database's three tables *)

\* tools has PRIMARY KEY tool_name: a set of rows. dependencies and
\* tool_categories have an AUTOINCREMENT id: their rows in id order.
EmptyStore == [tools |-> {}, dependencies |-> <<>>, tool_categories |-> <<>>]

\* the NOT NULL columns of tools (last_updated, the fourth, is an integer in
\* every row the model writes)
NotNullColumns == {"tool_name", "version", "primary_category"}

\* SELECT tool_name FROM tools WHERE tool_name = ? ... fetchone()
ToolExists(s, name) == \E r \in s.tools : r.tool_name = name

\* NOT NULL constraints of the tools table
ViolatesNotNull(row) == \E c \in NotNullColumns : row[c] = NULL

\* INSERT INTO tools: IntegrityError on a duplicate primary key or a NULL
\* in a NOT NULL column
InsertTool(s, row) ==
    IF ToolExists(s, row.tool_name) \/ ViolatesNotNull(row)
    THEN [err |-> TRUE, s |-> s]
    ELSE [err |-> FALSE, s |-> [s EXCEPT !.tools = @ \cup {row}]]

\* a variant without the WHERE clause: every row of tools is updated
UpdateToolEveryRow(s, name, cols) ==
    LET upd(r) == [c \in DOMAIN r |-> IF c \in DOMAIN cols THEN cols[c] ELSE r[c]]
    IN  [err |-> FALSE, s |-> [s EXCEPT !.tools = {upd(r) : r \in @}]]

\* UPDATE tools SET <cols> WHERE tool_name = ?
UpdateTool(s, name, cols) ==
    LET upd(r) == [c \in DOMAIN r |-> IF c \in DOMAIN cols THEN cols[c] ELSE r[c]]
    IN  IF \E r \in s.tools : r.tool_name = name /\ ViolatesNotNull(upd(r))
        THEN [err |-> TRUE, s |-> s]
        ELSE [err |-> FALSE,
              s |-> [s EXCEPT !.tools =
                        {IF r.tool_name = name THEN upd(r) ELSE r : r \in @}]]

\* a variant without the DELETE: the old rows stay
DeleteDependenciesMissing(s, name) == s

\* DELETE FROM dependencies WHERE tool_name = ?
DeleteDependencies(s, name) ==
    [s EXCEPT !.dependencies = SelectSeq(@, LAMBDA r : r.tool_name # name)]

\* a variant without the DELETE: the old rows stay
DeleteCategoriesMissing(s, name) == s

\* DELETE FROM tool_categories WHERE tool_name = ?
DeleteCategories(s, name) ==
    [s EXCEPT !.tool_categories = SelectSeq(@, LAMBDA r : r.tool_name # name)]

\* INSERT INTO dependencies (tool_name, dependency_name, is_optional)
InsertDependency(s, name, dep, opt) ==
    [s EXCEPT !.dependencies =
        Append(@, [tool_name |-> name, dependency_name |-> dep, is_optional |-> opt])]

\* INSERT INTO tool_categories (tool_name, category_name)
InsertCategory(s, name, cat) ==
    [s EXCEPT !.tool_categories =
        Append(@, [tool_name |-> name, category_name |-> cat])]

\* SELECT dependency_name, is_optional FROM dependencies WHERE tool_name = ?
DependenciesOf(s, name) ==
    LET rows == SelectSeq(s.dependencies, LAMBDA r : r.tool_name = name)
    IN  [k \in 1..Len(rows) |-> <<rows[k].dependency_name, rows[k].is_optional>>]

\* SELECT category_name FROM tool_categories WHERE tool_name = ?
CategoriesOf(s, name) ==
    LET rows == SelectSeq(s.tool_categories, LAMBDA r : r.tool_name = name)
    IN  [k \in 1..Len(rows) |-> rows[k].category_name]

----------------------------------------------------------------------------
(* A handler's statements.  A statement is [op, name, val]; the connection
   state cx is [s, exists, err]: the store as the connection sees it, the
   handler's local `exists`, and whether an exception was raised. *)

Stmt(o, n, v) == [op |-> o, name |-> n, val |-> v]

\* a variant that stamps every record with the time of the import
ImportColsStampedNow(tool, t) ==
    [version           |-> Get(tool, "version", ""),
     primary_category  |-> Get(tool, "primary_category", ""),
     short_description |-> Get(tool, "short_description", ""),
     long_description  |-> Get(tool, "long_description", ""),
     upstream_url      |-> Get(tool, "upstream_url", ""),
     help_command      |-> Get(tool, "help_command", ""),
     last_updated      |-> t]

\* the column values import_from_json binds, for UPDATE and for INSERT alike
ImportCols(tool, t) ==
    [version           |-> Get(tool, "version", ""),
     primary_category  |-> Get(tool, "primary_category", ""),
     short_description |-> Get(tool, "short_description", ""),
     long_description  |-> Get(tool, "long_description", ""),
     upstream_url      |-> Get(tool, "upstream_url", ""),
     help_command      |-> Get(tool, "help_command", ""),
     last_updated      |-> Get(tool, "last_updated", t)]

\* a record with one more field
With(r, key, v) == [c \in DOMAIN r \cup {key} |-> IF c = key THEN v ELSE r[c]]

\* a variant that only updates: a record of a new tool inserts no tools row
UpsertImportUpdateOnly(cx, tool, t) ==
    IF cx.exists
    THEN LET res == UpdateTool(cx.s, tool.tool_name, ImportCols(tool, t))
         IN  [cx EXCEPT !.s = res.s, !.err = res.err]
    ELSE cx

\* import_from_json's upsert of one tool record
UpsertImport(cx, tool, t) ==
    LET res == IF cx.exists
               THEN UpdateTool(cx.s, tool.tool_name, ImportCols(tool, t))
               ELSE InsertTool(cx.s, With(ImportCols(tool, t), "tool_name", tool.tool_name))
    IN  [cx EXCEPT !.s = res.s, !.err = res.err]

\* the column values update_database binds for UPDATE (upstream_url is not among them)
LoaderCols(tool_data, scraped_descriptions, current_time) ==
    [version           |-> tool_data.version,
     primary_category  |-> tool_data.primary_category,
     short_description |-> tool_data.description,
     long_description  |-> Get(scraped_descriptions, tool_data.tool_name,
                               tool_data.description),
     help_command      |-> HelpCommand(tool_data.tool_name),
     last_updated      |-> current_time]

\* a variant that always inserts, whether the tool exists or not
UpsertLoaderInsertOnly(cx, v) ==
    LET cols == LoaderCols(v.tool_data, v.scraped_descriptions, v.current_time)
        res  == InsertTool(cx.s, With(With(cols, "tool_name", v.tool_data.tool_name),
                                      "upstream_url", NULL))
    IN  [cx EXCEPT !.s = res.s, !.err = res.err]

\* update_database's upsert of one tool: UPDATE of six columns, or INSERT of
\* seven (upstream_url is left to its default, NULL)
UpsertLoader(cx, v) ==
    LET cols == LoaderCols(v.tool_data, v.scraped_descriptions, v.current_time)
        name == v.tool_data.tool_name
        res  == IF cx.exists
                THEN UpdateTool(cx.s, name, cols)
                ELSE InsertTool(cx.s, With(With(cols, "tool_name", name),
                                           "upstream_url", NULL))
    IN  [cx EXCEPT !.s = res.s, !.err = res.err]

\* one statement on the connection
Exec(cx, st, t) ==
    CASE st.op = "raise"  -> [cx EXCEPT !.err = TRUE]
      [] st.op = "select" -> [cx EXCEPT !.exists = ToolExists(cx.s, st.name)]
      [] st.op = "upsert_import" -> UpsertImport(cx, st.val, t)
      [] st.op = "upsert_loader" -> UpsertLoader(cx, st.val)
      [] st.op = "delete_dependencies" ->
            [cx EXCEPT !.s = DeleteDependencies(cx.s, st.name)]
      [] st.op = "delete_categories" ->
            [cx EXCEPT !.s = DeleteCategories(cx.s, st.name)]
      [] st.op = "delete_dependencies_if_exists" ->
            IF cx.exists THEN [cx EXCEPT !.s = DeleteDependencies(cx.s, st.name)] ELSE cx
      [] st.op = "delete_categories_if_exists" ->
            IF cx.exists THEN [cx EXCEPT !.s = DeleteCategories(cx.s, st.name)] ELSE cx
      [] st.op = "insert_dependency" ->
            [cx EXCEPT !.s = InsertDependency(cx.s, st.name, st.val[1], st.val[2])]
      [] st.op = "insert_category" ->
            [cx EXCEPT !.s = InsertCategory(cx.s, st.name, st.val)]

\* the statements from position k on, until one raises
RECURSIVE RunFrom(_, _, _, _)
RunFrom(cx, stmts, k, t) ==
    IF k > Len(stmts) \/ cx.err THEN cx
    ELSE RunFrom(Exec(cx, stmts[k], t), stmts, k + 1, t)

\* sqlite3.connect: the connection starts from the committed store
Connect(store) == [s |-> store, exists |-> FALSE, err |-> FALSE]

\* concatenation of a sequence of sequences
RECURSIVE Flatten(_)
Flatten(ss) == IF ss = <<>> THEN <<>> ELSE Head(ss) \o Flatten(Tail(ss))

----------------------------------------------------------------------------
(* import_from_json *)

\* what open() and json.load() can end with
LoadErrors == {"FileNotFoundError", "JSONDecodeError", "PermissionError", "UnicodeDecodeError"}

\* except (FileNotFoundError, json.JSONDecodeError)
CaughtOnLoad == {"FileNotFoundError", "JSONDecodeError"}

\* the INSERTs of one record's dependencies; dep['name'] raises KeyError
DependencyStatements(tool) ==
    LET deps == Get(tool, "dependencies", <<>>)
    IN  [k \in 1..Len(deps) |->
            IF "name" \in DOMAIN deps[k]
            THEN Stmt("insert_dependency", tool.tool_name,
                      <<deps[k].name, OptionalFlag(deps[k])>>)
            ELSE Stmt("raise", tool.tool_name, "KeyError")]

\* the INSERTs of one record's categories
CategoryStatements(tool) ==
    LET cats == Get(tool, "categories", <<>>)
    IN  [k \in 1..Len(cats) |-> Stmt("insert_category", tool.tool_name, cats[k])]

\* one iteration of the loop over data.get('tools', []); tool['tool_name']
\* raises KeyError before the first statement
ImportToolStatements(tool) ==
    IF "tool_name" \notin DOMAIN tool
    THEN << Stmt("raise", NULL, "KeyError") >>
    ELSE << Stmt("select", tool.tool_name, NULL),
            Stmt("upsert_import", tool.tool_name, tool),
            Stmt("delete_dependencies", tool.tool_name, NULL),
            Stmt("delete_categories", tool.tool_name, NULL) >>
         \o DependencyStatements(tool) \o CategoryStatements(tool)

\* conn.commit(): the connection's view becomes the committed store
Commit(store, cx) == cx.s

\* conn.rollback(), and close() or the end of the process without commit
Rollback(store, cx) == store

\* a variant in autocommit mode: every statement is in the file at once
Autocommit(store, cx) == cx.s

\* What the database file holds while the connection's transaction is open
\* (BEGIN TRANSACTION in import_from_json, sqlite3's implicit BEGIN before the
\* first INSERT/UPDATE/DELETE in update_database): its statements are not in it.
InTransaction(store, cx) == store

----------------------------------------------------------------------------
(* export_tools_to_json *)

\* one element of the exported 'tools' list: dict(row) with the embedded
\* dependencies and categories
ExportTool(store, row) ==
    LET deps == DependenciesOf(store, row.tool_name)
    IN  With(With(row, "dependencies",
                  [k \in 1..Len(deps) |->
                      [name |-> deps[k][1], optional |-> Bool(deps[k][2])]]),
             "categories", CategoriesOf(store, row.tool_name))

\* the orders in which SELECT DISTINCT t.* FROM tools t may return the rows
RowOrders(store) ==
    {f \in [1..Cardinality(store.tools) -> store.tools] :
        \A j, k \in DOMAIN f : j # k => f[j] # f[k]}

\* the document written with no filter, the rows fetched in `order`
ExportToolsToJson(store, order, t) ==
    [tools       |-> [k \in 1..Len(order) |-> ExportTool(store, order[k])],
     exported_at |-> t,
     filter      |-> [type |-> NULL, value |-> NULL]]

----------------------------------------------------------------------------
(* update_database *)

\* a variant that takes the first group, whatever its prefix
PrimaryCategoryFirstGroup(groups) ==
    IF groups = <<>> THEN Uncategorized ELSE Head(groups)

\* the primary category extract_tool_details derives from the groups
RECURSIVE PrimaryCategory(_)
PrimaryCategory(groups) ==
    IF groups = <<>> THEN Uncategorized
    ELSE IF StartsWithBlackarch(Head(groups)) THEN Head(groups)
    ELSE PrimaryCategory(Tail(groups))

\* the statements of one iteration of the loop over tools_data.items()
UpdateToolStatements(tool_data, scraped_descriptions, current_time) ==
    LET name   == tool_data.tool_name
        others == SelectSeq(tool_data.groups,
                      LAMBDA g : StartsWithBlackarch(g) /\ g # tool_data.primary_category)
    IN  << Stmt("select", name, NULL),
           Stmt("upsert_loader", name,
                [tool_data |-> tool_data, scraped_descriptions |-> scraped_descriptions,
                 current_time |-> current_time]),
           Stmt("delete_dependencies_if_exists", name, NULL),
           Stmt("delete_categories_if_exists", name, NULL) >>
        \o [k \in 1..Len(tool_data.dependencies) |->
               Stmt("insert_dependency", name, <<tool_data.dependencies[k], 0>>)]
        \o [k \in 1..Len(tool_data.optdepends) |->
               Stmt("insert_dependency", name, <<tool_data.optdepends[k], 1>>)]
        \o << Stmt("insert_category", name, tool_data.primary_category) >>
        \o [k \in 1..Len(others) |-> Stmt("insert_category", name, others[k])]

UpdateStatements(tools_data, scraped_descriptions, current_time) ==
    Flatten([k \in 1..Len(tools_data) |->
                UpdateToolStatements(tools_data[k], scraped_descriptions, current_time)])

\* the whole call: the one commit follows the loop; an exception leaves the
\* function before it
UpdateDatabase(store, tools_data, scraped_descriptions, current_time) ==
    LET cx == RunFrom(Connect(store),
                      UpdateStatements(tools_data, scraped_descriptions, current_time),
                      1, current_time)
    IN  IF cx.err
        THEN [ret |-> "IntegrityError", db |-> Rollback(store, cx)]
        ELSE [ret |-> "None", db |-> Commit(store, cx)]

----------------------------------------------------------------------------
(* Inputs *)

\* Tool records of import documents.  "exported": a record as
\* export_tools_to_json writes it; "bare": a hand-written record without
\* primary_category and last_updated; "baddep": its second dependency has no
\* 'name'; "noname": no 'tool_name'; "nullversion": "version": null.
ImportRecord(kind, n) ==
    CASE kind = "exported" ->
            [tool_name |-> n, version |-> "1", primary_category |-> "blackarch-web",
             short_description |-> "d", long_description |-> "d",
             upstream_url |-> NULL, help_command |-> HelpCommand(n), last_updated |-> 0,
             dependencies |-> << [name |-> "x", optional |-> FALSE],
                                 [name |-> "y", optional |-> TRUE] >>,
             categories |-> << "blackarch-web", "blackarch-scan" >>]
      [] kind = "bare" ->
            [tool_name |-> n, version |-> "2",
             dependencies |-> << [name |-> "x"] >>,
             categories |-> << "blackarch-scan" >>]
      [] kind = "baddep" ->
            [tool_name |-> n, version |-> "2", primary_category |-> "blackarch-scan",
             last_updated |-> 0,
             dependencies |-> << [name |-> "y"], [optional |-> TRUE] >>,
             categories |-> << "blackarch-scan" >>]
      [] kind = "noname" -> [version |-> "1"]
      [] kind = "nullversion" ->
            [tool_name |-> n, version |-> NULL, primary_category |-> "blackarch-web"]

ImportRecords ==
    {ImportRecord(kind, n) : kind \in {"exported", "bare", "baddep"}, n \in ToolNames}
    \cup {ImportRecord("noname", "a"), ImportRecord("nullversion", "a")}

\* What extract_tool_details parses out of pacman -Si for tool n: its groups
\* decide primary_category.
Details(profile, n) ==
    LET groups == CASE profile = "web"   -> << "blackarch", "blackarch-web" >>
                    [] profile = "multi" -> << "blackarch-scan", "blackarch-web", "blackarch-web" >>
                    [] profile = "plain" -> << "blackarch" >>
    IN  [tool_name        |-> n,
         version          |-> IF profile = "multi" THEN "2" ELSE "1",
         description      |-> IF profile = "multi" THEN "e" ELSE "d",
         dependencies     |-> IF profile = "web" THEN << "x" >> ELSE <<>>,
         optdepends       |-> IF profile = "plain" THEN <<>> ELSE << "y" >>,
         groups           |-> groups,
         primary_category |-> PrimaryCategory(groups)]

Profiles == {"web", "multi", "plain"}

\* extract_blackarch_tools: the names, sorted (sort -u)
tools_list == << "a", "b" >>

\* range(0, total_tools, batch_size)
BatchStarts == {i \in 0..(Len(tools_list) - 1) : i % batch_size = 0}

\* tools_list[i:i+batch_size]
Batch(i) ==
    LET hi == IF i + batch_size < Len(tools_list) THEN i + batch_size ELSE Len(tools_list)
    IN  SubSeq(tools_list, i + 1, hi)

\* a variant that gives up the batch at the first tool whose extraction fails
ToolsDataUntilFailure(batch, choice) ==
    LET bad == {k \in 1..Len(batch) : choice[k] = "failed"}
        n   == IF bad = {} THEN Len(batch)
               ELSE (CHOOSE k \in bad : \A j \in bad : k <= j) - 1
    IN  [j \in 1..n |-> Details(choice[j], batch[j])]

\* the tools_data main() builds for a batch, in the order of the batch;
\* choice[k] is what extract_tool_details gave for the k-th tool: the profile
\* of its details, or "failed" when it returned None, and then the tool is
\* left out
ToolsData(batch, choice) ==
    LET idx == SelectSeq([k \in 1..Len(batch) |-> k], LAMBDA k : choice[k] # "failed")
    IN  [j \in 1..Len(idx) |-> Details(choice[idx[j]], batch[idx[j]])]

\* the tools_data main() can build for a batch
BatchResults(batch) ==
    {ToolsData(batch, choice) : choice \in [1..Len(batch) -> Profiles \cup {"failed"}]}

\* what scrape_tool_descriptions returns: nothing, or a description of tool "a"
ScrapeResults == { <<>>, [n \in {"a"} |-> "long a"] }

----------------------------------------------------------------------------
(* The handlers, statement by statement.  A document and a batch are fixed
   when the handler starts; the model reveals them one loop iteration at a
   time, as the loop reads them. *)

NoTool == [tool_name |-> NULL]
NoArg  == [i |-> 0, scraped_descriptions |-> <<>>, current_time |-> 0]

\* the tables init_database creates
Tables == {"tools", "dependencies", "tool_categories"}

\* the store file after init_database
Initialized == [exists |-> TRUE, tables |-> Tables]

\* nothing has been asked of the Browser yet
NoOut == [call |-> "none"]

\* no Browser process is reading
NoReader == [call |-> "none"]

\* extract_tool_details is not running
NoDetails == [tool_name |-> NULL]
NoField == "None"

\* the store file, the Browser and the parser at rest
Quiet ==
    /\ file = Initialized
    /\ out = NoOut
    /\ output = <<>>
    /\ details = NoDetails
    /\ current_field = NoField
    /\ reader = NoReader

Init ==
    /\ db = EmptyStore
    /\ now = 0
    /\ op = "none"
    /\ ret = "none"
    /\ pre = EmptyStore
    /\ conn = Connect(EmptyStore)
    /\ arg = NoArg
    /\ doc = <<>>
    /\ pos = 0
    /\ cur = NoTool
    /\ prog = <<>>
    /\ ip = 0
    /\ Quiet

\* no handler is between its connect and its close
Idle == op = "none" \/ ret # "none"

Running(kinds) == op \in kinds /\ ret = "none"

\* the loop is between two iterations
AtBoundary == ip = Len(prog) /\ ~conn.err

\* a handler of kind `kind` connects
Begin(kind, tools) ==
    /\ op' = kind
    /\ ret' = "none"
    /\ pre' = db
    /\ conn' = Connect(db)
    /\ doc' = tools
    /\ pos' = 0
    /\ cur' = NoTool
    /\ prog' = <<>>
    /\ ip' = 0
    /\ UNCHANGED <<db, now>>
    /\ UNCHANGED qvars

\* a handler returns `result`, the committed store being `store`; its
\* connection is closed and its locals are gone
End(result, store) ==
    /\ ret' = result
    /\ db' = store
    /\ conn' = Connect(EmptyStore)
    /\ arg' = NoArg
    /\ pos' = 0
    /\ cur' = NoTool
    /\ prog' = <<>>
    /\ ip' = 0
    /\ UNCHANGED <<now, op, pre, doc>>
    /\ UNCHANGED qvars

\* the process of a running handler ends without commit: the model keeps what
\* the handler had reached (conn, cur, ip) as the record of what was lost
Killed(store) ==
    /\ ret' = "killed"
    /\ db' = store
    /\ UNCHANGED <<now, op, pre, conn, arg, doc, pos, cur, prog, ip>>
    /\ UNCHANGED qvars

\* a second passes
Tick ==
    /\ Idle
    /\ now < MaxTime
    /\ now' = now + 1
    /\ UNCHANGED <<db, op, ret, pre, conn, arg, doc, pos, cur, prog, ip>>
    /\ UNCHANGED qvars

\* import_from_json: open() or json.load() raises
ImportLoadFails ==
    /\ Idle
    /\ \E e \in LoadErrors :
          /\ ret' = IF e \in CaughtOnLoad THEN "False" ELSE e
          /\ op' = "import"
          /\ pre' = db
          /\ conn' = Connect(EmptyStore)
          /\ arg' = NoArg
          /\ doc' = <<>>
          /\ pos' = 0
          /\ cur' = NoTool
          /\ prog' = <<>>
          /\ ip' = 0
          /\ UNCHANGED <<db, now>>
          /\ UNCHANGED qvars

\* import_from_json: the document loads; get_connection and BEGIN TRANSACTION
ImportBegin ==
    /\ Idle
    /\ Begin("import", <<>>)
    /\ arg' = NoArg

\* the next iteration of `for tool in data.get('tools', [])`
ReadRecord ==
    /\ Running({"import"})
    /\ AtBoundary
    /\ pos < MaxDocLen
    /\ \E r \in ImportRecords :
          /\ cur' = r
          /\ prog' = ImportToolStatements(r)
    /\ pos' = pos + 1
    /\ ip' = 0
    /\ UNCHANGED <<db, now, op, ret, pre, conn, arg, doc>>
    /\ UNCHANGED qvars

\* the same, the document kept for a second import
ReadRecordKept ==
    /\ Running({"import"})
    /\ AtBoundary
    /\ pos < MaxDocLen
    /\ \E r \in ImportRecords :
          /\ cur' = r
          /\ prog' = ImportToolStatements(r)
          /\ doc' = Append(doc, r)
    /\ pos' = pos + 1
    /\ ip' = 0
    /\ UNCHANGED <<db, now, op, ret, pre, conn, arg>>
    /\ UNCHANGED qvars

\* the next iteration over a document the model holds
ReplayRecord ==
    /\ Running({"reimport", "roundtrip"})
    /\ AtBoundary
    /\ pos < Len(doc)
    /\ cur' = doc[pos + 1]
    /\ prog' = ImportToolStatements(doc[pos + 1])
    /\ pos' = pos + 1
    /\ ip' = 0
    /\ UNCHANGED <<db, now, op, ret, pre, conn, arg, doc>>
    /\ UNCHANGED qvars

\* the next statement of the iteration
Step ==
    /\ ret = "none"
    /\ op # "none"
    /\ ~conn.err
    /\ ip < Len(prog)
    /\ conn' = Exec(conn, prog[ip + 1], now)
    /\ ip' = ip + 1
    /\ db' = InTransaction(db, conn')
    /\ UNCHANGED <<now, op, ret, pre, arg, doc, pos, cur, prog>>
    /\ UNCHANGED qvars

\* the document's loop is over: conn.commit(), return True
ImportCommit ==
    /\ Running({"import", "reimport", "roundtrip"})
    /\ AtBoundary
    /\ op = "import" \/ pos = Len(doc)
    /\ End("True", Commit(db, conn))

\* except Exception: conn.rollback(), return False
ImportRollback ==
    /\ Running({"import", "reimport", "roundtrip"})
    /\ conn.err
    /\ End("False", Rollback(db, conn))

\* the Browser's process stops before the commit
Crash ==
    /\ Running({"import", "reimport", "roundtrip"})
    /\ Killed(Rollback(db, conn))

\* import_from_json on the document that was just imported
ReimportBegin ==
    /\ Idle
    /\ op \in {"import", "reimport"}
    /\ ret = "True"
    /\ Begin("reimport", doc)
    /\ arg' = NoArg

\* export_tools_to_json(output_file), then import_from_json(output_file)
RoundTripBegin ==
    /\ Idle
    /\ \E order \in RowOrders(db) :
          Begin("roundtrip", ExportToolsToJson(db, order, now).tools)
    /\ arg' = NoArg

\* main() calls update_database for the batch starting at i
LoaderBegin ==
    /\ Idle
    /\ \E i \in BatchStarts :
       \E scraped \in (IF i = 0 THEN ScrapeResults ELSE { <<>> }) :
          arg' = [i |-> i, scraped_descriptions |-> scraped, current_time |-> now]
    /\ Begin("loader", <<>>)

\* the next iteration of `for tool_name, tool_data in tools_data.items()`:
\* the next tool of the batch whose extraction gave details
ReadTool ==
    /\ Running({"loader"})
    /\ AtBoundary
    /\ \E j \in (pos + 1)..Len(Batch(arg.i)) :
       \E profile \in Profiles :
          LET tool_data == Details(profile, Batch(arg.i)[j])
          IN  /\ cur' = tool_data
              /\ prog' = UpdateToolStatements(tool_data, arg.scraped_descriptions,
                                              arg.current_time)
              /\ pos' = j
    /\ ip' = 0
    /\ UNCHANGED <<db, now, op, ret, pre, conn, arg, doc>>
    /\ UNCHANGED qvars

\* the batch's loop is over: conn.commit(), conn.close()
LoaderCommit ==
    /\ Running({"loader"})
    /\ AtBoundary
    /\ End("None", Commit(db, conn))

\* KeyboardInterrupt, or an exception out of a statement: update_database is
\* left before its commit and the process ends
Interrupt ==
    /\ Running({"loader"})
    /\ Killed(Rollback(db, conn))

\* Loader batches, imports and export-import round trips, one call after another
Next ==
    \/ ImportLoadFails
    \/ ImportBegin
    \/ ReadRecord
    \/ Step
    \/ ImportCommit
    \/ ImportRollback
    \/ RoundTripBegin
    \/ ReplayRecord
    \/ LoaderBegin
    \/ ReadTool
    \/ LoaderCommit

Spec == Init /\ [][Next]_vars

\* imports whose process may stop at any statement
NextCrash ==
    \/ ImportBegin
    \/ ReadRecord
    \/ Step
    \/ ImportCommit
    \/ ImportRollback
    \/ Crash

SpecCrash == Init /\ [][NextCrash]_vars

\* Loader runs that may be interrupted at any statement
NextLoader ==
    \/ Tick
    \/ LoaderBegin
    \/ ReadTool
    \/ Step
    \/ LoaderCommit
    \/ Interrupt

SpecLoader == Init /\ [][NextLoader]_vars

\* imports, each document imported again any number of times, while time passes
NextTwice ==
    \/ Tick
    \/ ImportBegin
    \/ ReadRecordKept
    \/ Step
    \/ ImportCommit
    \/ ImportRollback
    \/ ReimportBegin
    \/ ReplayRecord

SpecTwice == Init /\ [][NextTwice]_vars

\* a second passes while a handler runs
TickDuringCall ==
    /\ ~Idle
    /\ now < MaxTime
    /\ now' = now + 1
    /\ UNCHANGED <<db, op, ret, pre, conn, arg, doc, pos, cur, prog, ip>>
    /\ UNCHANGED qvars

\* Loader batches and imports, one call after another, while time passes
NextWrites ==
    \/ Tick
    \/ TickDuringCall
    \/ ImportBegin
    \/ ReadRecord
    \/ Step
    \/ ImportCommit
    \/ ImportRollback
    \/ LoaderBegin
    \/ ReadTool
    \/ LoaderCommit

SpecWrites == Init /\ [][NextWrites]_vars

----------------------------------------------------------------------------
(* extract_tool_details: the parser of pacman -Si.  A line of the output is
   the sequence of its parts: the text before its first colon as one part,
   the colon ":" itself, and the whitespace-separated words after it; a line
   without colon is the sequence of its words. *)

\* lines per output
MaxLines == 3

PacmanLines ==
    { << "Version", ":", "1" >>,
      << "Groups", ":", "blackarch", "blackarch-web" >>,
      << "Groups", ":", "blackarch" >>,
      << "Groups", ":" >>,
      << "Depends On", ":", "x" >>,
      << "Optional Deps", ":", "y" >>,
      << "Provides", ":", "p" >>,
      << "z" >>,
      << "blackarch-scan" >> }

\* what execute_command returns: the lines of the output; no line when the
\* command failed (None) or printed nothing ('')
PacmanOutputs == UNION {[1..n -> PacmanLines] : n \in 0..MaxLines}

\* ':' in line
HasColon(line) == \E k \in 1..Len(line) : line[k] = ":"

\* where line.split(':', 1) splits
FirstColon(line) ==
    CHOOSE k \in 1..Len(line) : line[k] = ":" /\ \A j \in 1..(k - 1) : line[j] # ":"

\* key.strip().lower()
Lower(key) ==
    CASE key = "Version"       -> "version"
      [] key = "Description"   -> "description"
      [] key = "Groups"        -> "groups"
      [] key = "Depends On"    -> "depends on"
      [] key = "Optional Deps" -> "optional deps"
      [] key = "Provides"      -> "provides"
      [] OTHER                 -> key

\* the key of a line that has a colon
KeyOf(line) == IF FirstColon(line) = 1 THEN "" ELSE Lower(line[FirstColon(line) - 1])

\* value.split() of a line that has a colon
ValueWords(line) == SubSeq(line, FirstColon(line) + 1, Len(line))

\* value.strip() as one string (the Version and Description lines of the
\* model carry one word)
ValueText(line) == IF ValueWords(line) = <<>> THEN "" ELSE ValueWords(line)[1]

\* the list field a key opens
FieldOf(key) ==
    CASE key = "depends on"    -> "dependencies"
      [] key = "optional deps" -> "optdepends"
      [] key = "groups"        -> "groups"
      [] OTHER                 -> NoField

\* one iteration of `for line in output.split('\n')`, on
\* st = [details, current_field]
ParseLine(st, line) ==
    IF line = <<>> THEN st
    ELSE IF HasColon(line)
    THEN LET key == KeyOf(line)
         IN  IF key \in {"version", "description"}
             THEN [st EXCEPT !.details[key] = ValueText(line)]
             ELSE IF FieldOf(key) # NoField
             THEN [details |-> IF ValueWords(line) # <<>>
                               THEN [st.details EXCEPT ![FieldOf(key)] = ValueWords(line)]
                               ELSE st.details,
                   current_field |-> FieldOf(key)]
             ELSE st
    ELSE IF st.current_field # NoField
    THEN [st EXCEPT !.details[st.current_field] = @ \o line]
    ELSE st

\* what the old variables hold while the parser runs
ParserOnly ==
    UNCHANGED <<db, now, pre, conn, arg, doc, cur, prog, ip, file, out, reader>>

\* extract_tool_details is called on a tool whose pacman -Si prints `output`
InitParser ==
    /\ db = EmptyStore
    /\ now = 0
    /\ op = "extract"
    /\ ret = "none"
    /\ pre = EmptyStore
    /\ conn = Connect(EmptyStore)
    /\ arg = NoArg
    /\ doc = <<>>
    /\ pos = 0
    /\ cur = NoTool
    /\ prog = <<>>
    /\ ip = 0
    /\ file = Initialized
    /\ out = NoOut
    /\ output \in PacmanOutputs
    /\ details = NoDetails
    /\ current_field = NoField
    /\ reader = NoReader

\* `if not output`: return None
ExtractFails ==
    /\ op = "extract"
    /\ ret = "none"
    /\ output = <<>>
    /\ ret' = "None"
    /\ UNCHANGED <<op, pos, output, details, current_field, reader>>
    /\ ParserOnly

\* the record before the first line
ExtractStart ==
    /\ op = "extract"
    /\ ret = "none"
    /\ output # <<>>
    /\ details = NoDetails
    /\ \E tool_name \in ToolNames :
          details' = [tool_name |-> tool_name, version |-> "", description |-> "",
                      dependencies |-> <<>>, optdepends |-> <<>>, groups |-> <<>>]
    /\ current_field' = NoField
    /\ UNCHANGED <<op, ret, pos, output>>
    /\ ParserOnly

\* the next line of the output
ExtractLine ==
    /\ op = "extract"
    /\ ret = "none"
    /\ details # NoDetails
    /\ pos < Len(output)
    /\ LET st == ParseLine([details |-> details, current_field |-> current_field],
                           output[pos + 1])
       IN  /\ details' = st.details
           /\ current_field' = st.current_field
    /\ pos' = pos + 1
    /\ UNCHANGED <<op, ret, output>>
    /\ ParserOnly

\* after the last line: the primary category, return details
ExtractReturn ==
    /\ op = "extract"
    /\ ret = "none"
    /\ details # NoDetails
    /\ pos = Len(output)
    /\ details' = With(details, "primary_category", PrimaryCategory(details.groups))
    /\ ret' = "details"
    /\ UNCHANGED <<op, pos, output, current_field, reader>>
    /\ ParserOnly

NextParser ==
    \/ ExtractFails
    \/ ExtractStart
    \/ ExtractLine
    \/ ExtractReturn

SpecParser == InitParser /\ [][NextParser]_vars

----------------------------------------------------------------------------
(* main() of the Loader: the batches of one run, one update_database call
   each, in order. *)

\* list[lo:hi]
Slice(list, lo, hi) ==
    SubSeq(list, lo + 1, IF hi < Len(list) THEN hi ELSE Len(list))

\* What extract_blackarch_tools returns in these runs: a sorted list one tool
\* longer than a batch, so that a run has two batches.
extract_blackarch_tools == SubSeq(<< "a", "b", "c", "d" >>, 1, batch_size + 1)

\* What extract_tool_details gives for a tool in these runs: details of one
\* of two profiles, or None ("failed").
ExtractionResults == {"web", "plain", "failed"}

\* main() starts: init_database() finds the tables, extract_blackarch_tools()
\* gives the list, the loop starts at i = 0
MainBegin ==
    /\ Idle
    /\ op' = "main"
    /\ ret' = "none"
    /\ pre' = db
    /\ arg' = [i |-> 0, scraped_descriptions |-> <<>>, current_time |-> now]
    /\ out' = [call |-> "main", i |-> 0, batch |-> <<>>, choice |-> <<>>, failed |-> {}]
    /\ UNCHANGED <<db, now, conn, doc, pos, cur, prog, ip, file, output, details,
                   current_field, reader>>

\* one iteration of `for i in range(0, total_tools, batch_size)`: the
\* extraction of every tool of the batch, the scrape in the first batch, and
\* update_database
MainBatch ==
    /\ op = "main"
    /\ ret = "none"
    /\ arg.i < Len(extract_blackarch_tools)
    /\ LET batch == Slice(extract_blackarch_tools, arg.i, arg.i + batch_size)
       IN  \E choice \in [1..Len(batch) -> ExtractionResults] :
           \E scraped \in (IF arg.i = 0 THEN ScrapeResults ELSE { <<>> }) :
           \E res \in {UpdateDatabase(db, ToolsData(batch, choice), scraped, now)} :
                  /\ db' = res.db
                  /\ ret' = IF res.ret = "None" THEN "none" ELSE res.ret
                  /\ out' = [call   |-> "batch",
                             i      |-> arg.i,
                             batch  |-> batch,
                             choice |-> choice,
                             failed |-> out.failed
                                 \cup {batch[k] : k \in {j \in 1..Len(batch) :
                                                            choice[j] = "failed"}}]
                  /\ arg' = [i |-> arg.i + batch_size, scraped_descriptions |-> scraped,
                             current_time |-> now]
    /\ pre' = db
    /\ UNCHANGED <<now, op, conn, doc, pos, cur, prog, ip, file, output, details,
                   current_field, reader>>

\* the range is exhausted: the final validation, main() returns
MainReturn ==
    /\ op = "main"
    /\ ret = "none"
    /\ arg.i >= Len(extract_blackarch_tools)
    /\ ret' = "None"
    /\ UNCHANGED <<db, now, op, pre, conn, arg, doc, pos, cur, prog, ip, file, out,
                   output, details, current_field, reader>>

\* runs of the Loader, one after another
NextMain ==
    \/ MainBegin
    \/ MainBatch
    \/ MainReturn

SpecMain == Init /\ [][NextMain]_vars

----------------------------------------------------------------------------
(* main() of the Loader, step by step: what it calls, in which order, and
   which connections the calls leave behind.  out.log is the sequence of the
   calls made so far in the run. *)

\* `if i == 0:`, a variant that scrapes in every batch
ScrapeInEveryBatch(i) == TRUE

\* `if i == 0:` the batch in which main() scrapes
ScrapeInBatch(i) == i = 0

\* What extract_blackarch_tools can return: no tool at all (the command
\* failed or printed nothing), or the sorted list of the tools.
RunLists == { <<>>, extract_blackarch_tools }

\* one call of the run: which function, in the batch starting at i, and
\* (quick_validation) what it returned
Event(step, i, ok) == [step |-> step, i |-> i, ok |-> ok]

\* main() is at `at`
RunAt(at) == op = "run" /\ ret = "none" /\ out.at = at

\* the outcomes of quick_validation on the store: it returns tool_count > 0
\* and has closed its connection; or it finds no table, or a statement raises
\* sqlite3.Error, and it returns False without conn.close(): the connection
\* is left to the interpreter, which may or may not have finalized it
QuickValidation(store, store_file) ==
    IF store_file.tables = {}
    THEN {[ok |-> FALSE, open |-> o] : o \in BOOLEAN}
    ELSE {[ok |-> store.tools # {}, open |-> FALSE]}
         \cup {[ok |-> FALSE, open |-> o] : o \in BOOLEAN}

\* main() starts: init_database(), extract_blackarch_tools()
RunBegin ==
    /\ Idle
    /\ \E list \in RunLists :
          out' = [call |-> "run", tools_list |-> list, at |-> "list", log |-> <<>>,
                  open |-> {}]
    /\ op' = "run"
    /\ ret' = "none"
    /\ pre' = db
    /\ arg' = NoArg
    /\ doc' = <<>>
    /\ pos' = 0
    /\ UNCHANGED <<db, now, conn, cur, prog, ip, file, output, details, current_field, reader>>

\* `if not tools_list: return`
RunNoTools ==
    /\ RunAt("list")
    /\ out.tools_list = <<>>
    /\ ret' = "None"
    /\ out' = [out EXCEPT !.at = "returned"]
    /\ UNCHANGED <<db, now, op, pre, conn, arg, doc, pos, cur, prog, ip, file, output,
                   details, current_field, reader>>

\* the next i of `for i in range(0, total_tools, batch_size)`: the batch is
\* sliced and tools_data starts empty
RunBatch ==
    /\ \/ RunAt("list") /\ out.tools_list # <<>>
       \/ RunAt("loop") /\ arg.i < Len(out.tools_list)
    /\ out' = [out EXCEPT !.at = "extract"]
    /\ doc' = <<>>
    /\ pos' = 0
    /\ UNCHANGED <<db, now, op, ret, pre, conn, arg, cur, prog, ip, file, output,
                   details, current_field, reader>>

\* `for tool_name in batch`: extract_tool_details of the next tool, kept in
\* tools_data unless it gave None
RunExtract ==
    /\ RunAt("extract")
    /\ LET batch == Slice(out.tools_list, arg.i, arg.i + batch_size)
       IN  /\ pos < Len(batch)
           /\ \E result \in ExtractionResults :
                 /\ doc' = IF result = "failed" THEN doc
                           ELSE Append(doc, Details(result, batch[pos + 1]))
                 /\ out' = [out EXCEPT
                               !.log = Append(@, Event("extract", arg.i, result # "failed"))]
    /\ pos' = pos + 1
    /\ UNCHANGED <<db, now, op, ret, pre, conn, arg, cur, prog, ip, file, output,
                   details, current_field, reader>>

\* the batch is extracted, `if i == 0:` holds: scrape_tool_descriptions()
RunScrape ==
    /\ RunAt("extract")
    /\ pos = Len(Slice(out.tools_list, arg.i, arg.i + batch_size))
    /\ ScrapeInBatch(arg.i)
    /\ \E scraped \in ScrapeResults :
          arg' = [arg EXCEPT !.scraped_descriptions = scraped]
    /\ out' = [out EXCEPT !.at = "update", !.log = Append(@, Event("scrape", arg.i, TRUE))]
    /\ UNCHANGED <<db, now, op, ret, pre, conn, doc, pos, cur, prog, ip, file, output,
                   details, current_field, reader>>

\* the batch is extracted, `if i == 0:` does not hold: scraped_descriptions = {}
RunNoScrape ==
    /\ RunAt("extract")
    /\ pos = Len(Slice(out.tools_list, arg.i, arg.i + batch_size))
    /\ ~ScrapeInBatch(arg.i)
    /\ arg' = [arg EXCEPT !.scraped_descriptions = <<>>]
    /\ out' = [out EXCEPT !.at = "update"]
    /\ UNCHANGED <<db, now, op, ret, pre, conn, doc, pos, cur, prog, ip, file, output,
                   details, current_field, reader>>

\* update_database(tools_data, scraped_descriptions): it commits and closes
\* its connection, or an exception leaves it and main() before conn.close()
RunUpdate ==
    /\ RunAt("update")
    /\ \E res \in {UpdateDatabase(db, doc, arg.scraped_descriptions, now)} :
          /\ db' = res.db
          /\ ret' = IF res.ret = "None" THEN "none" ELSE res.ret
          /\ out' = [out EXCEPT
                        !.at = IF res.ret = "None" THEN "validate" ELSE "raised",
                        !.log = Append(@, Event("update", arg.i, res.ret = "None")),
                        !.open = IF res.ret = "None" THEN @ ELSE @ \cup {"update_database"}]
    /\ arg' = [arg EXCEPT !.current_time = now]
    /\ pre' = db
    /\ UNCHANGED <<now, op, conn, doc, pos, cur, prog, ip, file, output, details,
                   current_field, reader>>

\* quick_validation(), the warning when it returns False, the progress
\* report; the loop goes on to the next i
RunValidate ==
    /\ RunAt("validate")
    /\ \E v \in QuickValidation(db, file) :
          out' = [out EXCEPT
                     !.at = "loop",
                     !.log = Append(@, Event("validate", arg.i, v.ok)),
                     !.open = IF v.open THEN @ \cup {"quick_validation"} ELSE @]
    /\ arg' = [arg EXCEPT !.i = @ + batch_size]
    /\ UNCHANGED <<db, now, op, ret, pre, conn, doc, pos, cur, prog, ip, file, output,
                   details, current_field, reader>>

\* the range is exhausted: the final quick_validation(), the summary, and
\* main() returns
RunReturn ==
    /\ RunAt("loop")
    /\ arg.i >= Len(out.tools_list)
    /\ \E v \in QuickValidation(db, file) :
          out' = [out EXCEPT
                     !.at = "returned",
                     !.open = IF v.open THEN @ \cup {"quick_validation"} ELSE @]
    /\ ret' = "None"
    /\ UNCHANGED <<db, now, op, pre, conn, arg, doc, pos, cur, prog, ip, file, output,
                   details, current_field, reader>>

\* one run of the Loader after another
NextRun ==
    \/ RunBegin
    \/ RunNoTools
    \/ RunBatch
    \/ RunExtract
    \/ RunScrape
    \/ RunNoScrape
    \/ RunUpdate
    \/ RunValidate
    \/ RunReturn

SpecRun == Init /\ [][NextRun]_vars

----------------------------------------------------------------------------
(* The Browser's queries.  The store they read is built the way the program
   builds it: init_database creates the file and its tables, import_from_json
   adds the tools. *)

\* tools in the store of the Browser's runs
MaxTools == 3
\* the largest page size asked of list_all_tools (its default is 20)
MaxPerPage == 2

\* tool names in the order of ORDER BY tool_name
NameOrder == << "a", "b", "c", "d", "e" >>

\* Tool records of the documents imported in these runs: "both" is in two
\* categories, "one" in the first of them, "tripled" in the first with three
\* membership rows.
CatalogueRecord(kind, n) ==
    [tool_name         |-> n,
     version           |-> "1",
     primary_category  |-> "blackarch-web",
     short_description |-> CASE kind = "both"    -> "abc"
                             [] kind = "one"     -> "a_c"
                             [] kind = "tripled" -> "50%",
     last_updated      |-> 0,
     categories        |-> CASE kind = "both"    -> << "blackarch-web", "blackarch-scan" >>
                             [] kind = "one"     -> << "blackarch-web" >>
                             [] kind = "tripled" -> << "blackarch-web", "blackarch-web",
                                                       "blackarch-web" >>]

CatalogueKinds == {"both", "one", "tripled"}

\* no store file yet
InitBrowser ==
    /\ db = EmptyStore
    /\ now = 0
    /\ op = "none"
    /\ ret = "none"
    /\ pre = EmptyStore
    /\ conn = Connect(EmptyStore)
    /\ arg = NoArg
    /\ doc = <<>>
    /\ pos = 0
    /\ cur = NoTool
    /\ prog = <<>>
    /\ ip = 0
    /\ file = [exists |-> FALSE, tables |-> {}]
    /\ out = NoOut
    /\ output = <<>>
    /\ details = NoDetails
    /\ current_field = NoField
    /\ reader = NoReader

\* what a query of the Browser leaves alone
QueryOnly ==
    UNCHANGED <<db, now, op, ret, pre, conn, arg, doc, pos, cur, prog, ip, file,
                output, details, current_field, reader>>

\* init_database: sqlite3.connect creates the file, empty
CreateFile ==
    /\ ~file.exists
    /\ file' = [exists |-> TRUE, tables |-> {}]
    /\ UNCHANGED <<db, now, op, ret, pre, conn, arg, doc, pos, cur, prog, ip, out,
                   output, details, current_field, reader>>

\* init_database: the next CREATE TABLE IF NOT EXISTS; sqlite3 opens no
\* transaction for it, the table is in the file at once
CreateTable ==
    /\ file.exists
    /\ file.tables # Tables
    /\ file' = [file EXCEPT !.tables =
                   @ \cup {CASE "tools" \notin @ -> "tools"
                             [] "tools" \in @ /\ "dependencies" \notin @ -> "dependencies"
                             [] OTHER -> "tool_categories"}]
    /\ UNCHANGED <<db, now, op, ret, pre, conn, arg, doc, pos, cur, prog, ip, out,
                   output, details, current_field, reader>>

\* import_from_json of a document with one record, of the next tool in name
\* order.  Without the tables the SELECT raises OperationalError, inside the
\* try: rollback, return False.
BrowserImport ==
    /\ file.exists
    /\ Cardinality(db.tools) < MaxTools
    /\ \E kind \in CatalogueKinds :
       \E cx \in {RunFrom(Connect(db),
                          ImportToolStatements(
                              CatalogueRecord(kind, NameOrder[Cardinality(db.tools) + 1])),
                          1, now)} :
          IF file.tables = Tables /\ ~cx.err
          THEN db' = Commit(db, cx) /\ ret' = "True"
          ELSE db' = Rollback(db, cx) /\ ret' = "False"
    /\ op' = "import"
    /\ pre' = db
    /\ out' = [call |-> "import"]
    /\ UNCHANGED <<now, conn, arg, doc, pos, cur, prog, ip, file, output, details,
                   current_field, reader>>

\* ORDER BY tool_name, of rows with distinct names
OrderByName(rows) ==
    LET names == SelectSeq(NameOrder, LAMBDA n : \E r \in rows : r.tool_name = n)
    IN  [k \in 1..Len(names) |-> CHOOSE r \in rows : r.tool_name = names[k]]

\* LIMIT ? OFFSET ?: SQLite reads a negative limit as no limit and a negative
\* offset as 0
LimitOffset(rows, limit, offset) ==
    LET off == IF offset < 0 THEN 0 ELSE offset
        n   == IF limit < 0 THEN Len(rows) ELSE limit
    IN  SubSeq(rows, off + 1, IF off + n < Len(rows) THEN off + n ELSE Len(rows))

\* a variant whose first page starts after the first per_page rows
PageOffsetFromPage(page, per_page) == page * per_page

\* offset = (page - 1) * per_page
PageOffset(page, per_page) == (page - 1) * per_page

\* (total + per_page - 1) // per_page
TotalPages(total, per_page) == (total + per_page - 1) \div per_page

\* list_all_tools(page, per_page): None when the page has no row, else the
\* rows, the numbers shown in the '#' column and the pagination info
ListAllTools(store, page, per_page) ==
    LET total  == Cardinality(store.tools)
        offset == PageOffset(page, per_page)
        tools  == LimitOffset(OrderByName(store.tools), per_page, offset)
    IN  IF tools = <<>>
        THEN [returned |-> "None"]
        ELSE [returned    |-> "dict",
              tools       |-> [k \in 1..Len(tools) |-> tools[k].tool_name],
              numbers     |-> [k \in 1..Len(tools) |-> offset + k],
              page        |-> page,
              total_pages |-> TotalPages(total, per_page),
              per_page    |-> per_page]

\* list_all_tools is called: pages 1 to one past the last
ListAll ==
    /\ file = Initialized
    /\ \E per_page \in 1..MaxPerPage :
       \E page \in 1..(TotalPages(Cardinality(db.tools), per_page) + 1) :
          out' = [call |-> "list_all_tools", page |-> page, per_page |-> per_page,
                  result |-> ListAllTools(db, page, per_page)]
    /\ QueryOnly

\* LIMIT 5 of find_related_tools
RelatedLimit == 5

\* the elements of a sequence
Range(seq) == {seq[k] : k \in 1..Len(seq)}

\* COUNT(tc.category_name) of the group of `name`: its membership rows whose
\* category is IN (categories)
CommonCategories(store, categories, name) ==
    Cardinality({k \in 1..Len(store.tool_categories) :
                    /\ store.tool_categories[k].tool_name = name
                    /\ store.tool_categories[k].category_name \in Range(categories)})

\* What find_related_tools(tool_name) can return: the groups of the join,
\* ORDER BY common_categories DESC (groups with the same count in any order),
\* LIMIT 5; each row is (tool_name, short_description, common_categories).
FindRelatedTools(store, tool_name) ==
    LET categories == CategoriesOf(store, tool_name)
        common(n)  == CommonCategories(store, categories, n)
        groups     == {r \in store.tools : r.tool_name # tool_name /\ common(r.tool_name) > 0}
        orders     == {f \in [1..Cardinality(groups) -> groups] :
                          /\ \A i, j \in DOMAIN f : i # j => f[i] # f[j]
                          /\ \A i, j \in DOMAIN f :
                                i < j => common(f[i].tool_name) >= common(f[j].tool_name)}
    IN  IF categories = <<>> THEN { <<>> }
        ELSE {[k \in 1..(IF Len(f) < RelatedLimit THEN Len(f) ELSE RelatedLimit) |->
                  << f[k].tool_name, f[k].short_description, common(f[k].tool_name) >>] :
              f \in orders}

\* find_related_tools is called, for a tool of the store or a name it has not
FindRelated ==
    /\ file = Initialized
    /\ \E tool_name \in Range(SubSeq(NameOrder, 1, MaxTools)) :
       \E related_tools \in FindRelatedTools(db, tool_name) :
          out' = [call |-> "find_related_tools", tool_name |-> tool_name,
                  result |-> related_tools]
    /\ QueryOnly

\* the characters of the strings of these runs; any other string of the
\* model is one character long
Chars(str) ==
    CASE str = ""    -> <<>>
      [] str = "abc" -> << "a", "b", "c" >>
      [] str = "a_c" -> << "a", "_", "c" >>
      [] str = "50%" -> << "5", "0", "%" >>
      [] str = "zz"  -> << "z", "z" >>
      [] OTHER       -> << str >>

\* LIKE compares ASCII letters without regard to case
FoldCase(c) ==
    CASE c = "A" -> "a"
      [] c = "B" -> "b"
      [] c = "C" -> "c"
      [] OTHER   -> c

\* text LIKE pattern: '%' matches any run of characters, '_' any one character
RECURSIVE Like(_, _)
Like(pattern, text) ==
    IF pattern = <<>> THEN text = <<>>
    ELSE IF Head(pattern) = "%"
    THEN Like(Tail(pattern), text) \/ (text # <<>> /\ Like(pattern, Tail(text)))
    ELSE IF Head(pattern) = "_"
    THEN text # <<>> /\ Like(Tail(pattern), Tail(text))
    ELSE /\ text # <<>>
         /\ FoldCase(Head(text)) = FoldCase(Head(pattern))
         /\ Like(Tail(pattern), Tail(text))

\* search_term = f"%{term}%"
SearchPattern(term) == << "%" >> \o Chars(term) \o << "%" >>

\* column LIKE ?: NULL matches nothing
ColumnLike(value, pattern) == value # NULL /\ Like(pattern, Chars(value))

\* WHERE tool_name LIKE ? OR short_description LIKE ? OR long_description LIKE ?
SearchRows(store, term) ==
    {r \in store.tools :
        \/ ColumnLike(r.tool_name, SearchPattern(term))
        \/ ColumnLike(r.short_description, SearchPattern(term))
        \/ ColumnLike(r.long_description, SearchPattern(term))}

\* search_tools(term): the names of the rows, ORDER BY tool_name; None when
\* there is none
SearchTools(store, term) ==
    LET tools == OrderByName(SearchRows(store, term))
    IN  IF tools = <<>>
        THEN [returned |-> "None", tools |-> <<>>]
        ELSE [returned |-> "list", tools |-> [k \in 1..Len(tools) |-> tools[k].tool_name]]

\* the terms searched for
SearchTerms == {"_", "a_c", "%", "B", "c", "zz"}

\* search_tools is called
Search ==
    /\ file = Initialized
    /\ \E term \in SearchTerms :
          out' = [call |-> "search_tools", term |-> term, result |-> SearchTools(db, term)]
    /\ QueryOnly

\* SELECT DISTINCT: the rows without their repetitions
RECURSIVE Distinct(_)
Distinct(rows) ==
    IF rows = <<>> THEN <<>>
    ELSE LET front == Distinct(SubSeq(rows, 1, Len(rows) - 1))
         IN  IF rows[Len(rows)] \in Range(front) THEN front
             ELSE Append(front, rows[Len(rows)])

\* tools t JOIN tool_categories tc ON t.tool_name = tc.tool_name
\* WHERE tc.category_name = ?: one row of t per membership row
JoinCategory(store, category) ==
    LET tc == SelectSeq(store.tool_categories,
                  LAMBDA m : m.category_name = category /\ ToolExists(store, m.tool_name))
    IN  [k \in 1..Len(tc) |-> CHOOSE r \in store.tools : r.tool_name = tc[k].tool_name]

\* The rows export_tools_to_json fetches.  No ORDER BY: the model lists them
\* in scan order and keeps of the order nothing but the number of times each
\* tool occurs (ExportDocument).
ExportRows(store, filter_type, filter_value) ==
    IF filter_type = "category"
    THEN Distinct(JoinCategory(store, filter_value))
    ELSE IF filter_type = "search"
    THEN Distinct(OrderByName(SearchRows(store, filter_value)))
    ELSE IF filter_type = "tools" /\ filter_value # <<>>
    THEN Distinct(OrderByName({r \in store.tools : r.tool_name \in Range(filter_value)}))
    ELSE Distinct(OrderByName(store.tools))

\* f"{len(filter_value)} tools"
CountText(n) ==
    CASE n = 0 -> "0 tools"
      [] n = 1 -> "1 tools"
      [] n = 2 -> "2 tools"
      [] OTHER -> "3 tools"

\* The document export_tools_to_json writes: for every tool name the number
\* of its records in 'tools', the export time and the filter descriptor.
ExportDocument(store, filter_type, filter_value, t) ==
    LET tools == ExportRows(store, filter_type, filter_value)
    IN  [count       |-> [n \in Range(NameOrder) |->
                             Cardinality({k \in 1..Len(tools) : tools[k].tool_name = n})],
         exported_at |-> t,
         filter      |-> [type  |-> filter_type,
                          value |-> IF filter_type = "tools"
                                    THEN CountText(Len(filter_value))
                                    ELSE filter_value]]

\* the categories and the name lists asked for
Categories == {"blackarch-web", "blackarch-scan"}
NameLists == { <<>>, << "a" >>, << "b", "a", "b" >>, << "e" >> }

\* export_tools_to_json is called with a filter
Export ==
    /\ file = Initialized
    /\ \/ out' = [call |-> "export_tools_to_json", filter_type |-> NULL,
                  document |-> ExportDocument(db, NULL, NULL, now)]
       \/ \E category \in Categories :
             out' = [call |-> "export_tools_to_json", filter_type |-> "category",
                     filter_value |-> category,
                     document |-> ExportDocument(db, "category", category, now)]
       \/ \E term \in SearchTerms :
             out' = [call |-> "export_tools_to_json", filter_type |-> "search",
                     filter_value |-> term,
                     document |-> ExportDocument(db, "search", term, now)]
       \/ \E names \in NameLists :
             out' = [call |-> "export_tools_to_json", filter_type |-> "tools",
                     filter_value |-> names,
                     document |-> ExportDocument(db, "tools", names, now)]
    /\ QueryOnly

\* argparse's namespace when no flag is given
NoFlags ==
    [category |-> NULL, search |-> NULL, tool |-> NULL, all |-> FALSE, export |-> NULL,
     export_category |-> NULL, export_search |-> NULL]

\* the command lines of these runs
CommandLines ==
    { NoFlags,
      [NoFlags EXCEPT !.category = "blackarch-web"],
      [NoFlags EXCEPT !.search = "c"],
      [NoFlags EXCEPT !.tool = "a"],
      [NoFlags EXCEPT !.all = TRUE],
      [NoFlags EXCEPT !.export = "out.json"],
      [NoFlags EXCEPT !.export_category = "blackarch-scan"],
      [NoFlags EXCEPT !.export_search = "a_c"],
      [NoFlags EXCEPT !.export = "out.json", !.export_category = "blackarch-scan"],
      [NoFlags EXCEPT !.export = "out.json", !.export_search = "a_c"],
      [NoFlags EXCEPT !.export_category = "blackarch-scan", !.export_search = "a_c"],
      [NoFlags EXCEPT !.all = TRUE, !.export_category = "blackarch-scan"] }

\* `if args.x` of a string option
Given(value) == value \notin {NULL, ""}

\* the branch of main()'s if/elif chain
Branch(args) ==
    CASE Given(args.category)        -> "list_tools_in_category"
      [] ~Given(args.category) /\ Given(args.search) -> "search_tools"
      [] ~Given(args.category) /\ ~Given(args.search) /\ Given(args.tool)
                                     -> "show_tool_details"
      [] ~Given(args.category) /\ ~Given(args.search) /\ ~Given(args.tool) /\ args.all
                                     -> "list_all_tools"
      [] ~Given(args.category) /\ ~Given(args.search) /\ ~Given(args.tool) /\ ~args.all
            /\ Given(args.export)    -> "export"
      [] ~Given(args.category) /\ ~Given(args.search) /\ ~Given(args.tool) /\ ~args.all
            /\ ~Given(args.export) /\ Given(args.export_category)
                                     -> "export_category"
      [] ~Given(args.category) /\ ~Given(args.search) /\ ~Given(args.tool) /\ ~args.all
            /\ ~Given(args.export) /\ ~Given(args.export_category)
            /\ Given(args.export_search)
                                     -> "export_search"
      [] OTHER                       -> "interactive_mode"

\* the tables the statements of a branch read; a statement on a table the
\* file does not have raises sqlite3.OperationalError
TablesRead(store, args) ==
    LET branch == Branch(args)
    IN  CASE branch = "list_tools_in_category" -> {"tools", "tool_categories"}
          [] branch = "search_tools"           -> {"tools"}
          [] branch = "list_all_tools"         -> {"tools"}
          [] branch = "show_tool_details" ->
                IF ToolExists(store, args.tool) THEN Tables ELSE {"tools"}
          [] branch = "export" ->
                IF store.tools # {} THEN Tables ELSE {"tools"}
          [] branch = "export_category"        -> {"tools", "tool_categories"}
          [] branch = "export_search" ->
                IF SearchRows(store, args.export_search) # {} THEN Tables ELSE {"tools"}
          [] OTHER                             -> {}

\* nothing was written
NoDocument == [file |-> NULL]

\* the file a branch writes
Written(store, args, t) ==
    LET branch == Branch(args)
    IN  CASE branch = "export" ->
                [file |-> args.export, document |-> ExportDocument(store, NULL, NULL, t)]
          [] branch = "export_category" ->
                [file     |-> IF Given(args.export) THEN args.export
                              ELSE "blackarch_category_export.json",
                 document |-> ExportDocument(store, "category", args.export_category, t)]
          [] branch = "export_search" ->
                [file     |-> IF Given(args.export) THEN args.export
                              ELSE "blackarch_search_export.json",
                 document |-> ExportDocument(store, "search", args.export_search, t)]
          [] OTHER -> NoDocument

\* One run of the Browser from its command line (in interactive mode the
\* user quits at the menu): check_database ends it with exit code 1 when the
\* store file is missing; an exception out of a query leaves main(), and the
\* interpreter ends the process with a traceback and exit code 1.
BrowserMain(store, store_file, args, t) ==
    IF ~store_file.exists
    THEN [call |-> "main", args |-> args, store_file |-> store_file, branch |-> "none",
          exit |-> 1, error |-> "database file not found", written |-> NoDocument]
    ELSE IF TablesRead(store, args) \subseteq store_file.tables
    THEN [call |-> "main", args |-> args, store_file |-> store_file,
          branch |-> Branch(args), exit |-> 0, error |-> "none",
          written |-> Written(store, args, t)]
    ELSE [call |-> "main", args |-> args, store_file |-> store_file,
          branch |-> Branch(args), exit |-> 1, error |-> "sqlite3.OperationalError",
          written |-> NoDocument]

\* the Browser is run
Main ==
    /\ \E args \in CommandLines : out' = BrowserMain(db, file, args, now)
    /\ QueryOnly

NextBrowser ==
    \/ CreateFile
    \/ CreateTable
    \/ BrowserImport
    \/ ListAll
    \/ FindRelated
    \/ Search
    \/ Export
    \/ Main

SpecBrowser == InitBrowser /\ [][NextBrowser]_vars

----------------------------------------------------------------------------
(* interactive_mode: the main menu and its list-all view (choice "2").  The
   view shows MaxPerPage tools per page where the program shows 20. *)

\* tool_choice.lower(), over the inputs of the model
LowerChoice(input) ==
    CASE input = "N" -> "n"
      [] input = "P" -> "p"
      [] input = "B" -> "b"
      [] input = "Q" -> "q"
      [] OTHER       -> input

Digits == << "1", "2", "3", "4", "5", "6", "7", "8", "9" >>

\* int(tool_choice) does not raise ValueError
IsInt(input) == input \in {"-1", "0"} \cup Range(Digits)

\* int(tool_choice)
ToInt(input) ==
    CASE input = "-1" -> -1
      [] input = "0"  -> 0
      [] OTHER        -> CHOOSE k \in 1..Len(Digits) : Digits[k] = input

\* what the user types at the view's prompt
ViewInputs == {"q", "b", "n", "p", "N", "x", "-1", "0"}
                  \cup {Digits[k] : k \in 1..(MaxTools + 1)}

\* a variant that takes the typed number as an index of the page
ToolIndexOfNumber(number, page, per_page) == number - 1

\* tool_idx = int(tool_choice) - 1 - ((page - 1) * per_page)
ToolIndex(number, page, per_page) == number - 1 - ((page - 1) * per_page)

\* the view when choice "2" is made: page = 1
NewView ==
    [call |-> "view", at |-> "list", page |-> 1, result |-> [returned |-> "None"],
     input |-> "2", shown |-> NULL, message |-> "none"]

\* the if/elif chain on tool_choice, with the page shown in view.result
ViewChoice(view, input, per_page) ==
    LET choice      == LowerChoice(input)
        tools       == view.result.tools
        total_pages == view.result.total_pages
        page        == view.page
        same        == [view EXCEPT !.input = input, !.shown = NULL, !.message = "none"]
    IN  CASE choice = "q" -> [same EXCEPT !.at = "quit"]
          [] choice = "b" -> [same EXCEPT !.at = "menu"]
          [] choice = "n" /\ page < total_pages -> [same EXCEPT !.page = page + 1]
          [] choice = "p" /\ page > 1 -> [same EXCEPT !.page = page - 1]
          [] OTHER ->
                IF ~IsInt(input)
                THEN same
                ELSE LET tool_idx == ToolIndex(ToInt(input), page, per_page)
                     IN  IF 0 <= tool_idx /\ tool_idx < Len(tools)
                         THEN [same EXCEPT !.shown = tools[tool_idx + 1]]
                         ELSE [same EXCEPT !.message = "Invalid tool number."]

\* the head of `while True:`: list_all_tools(page, per_page), and `break`
\* when it gave None
ShowPage(store, view, per_page) ==
    IF view.at # "list"
    THEN view
    ELSE LET result == ListAllTools(store, view.page, per_page)
         IN  IF result.returned = "None"
             THEN [view EXCEPT !.at = "menu", !.result = result]
             ELSE [view EXCEPT !.result = result]

\* the list-all view is open
Viewing == out.call = "view" /\ out.at = "list"

\* choice "6" of the main menu: an import
MenuImport ==
    /\ ~Viewing
    /\ BrowserImport

\* choice "2" of the main menu
ViewOpen ==
    /\ file = Initialized
    /\ ~Viewing
    /\ out' = ShowPage(db, NewView, MaxPerPage)
    /\ QueryOnly

\* one pass of the view's loop: the prompt, the chain on the input, and the
\* page shown next
ViewInput ==
    /\ Viewing
    /\ \E input \in ViewInputs :
          out' = ShowPage(db, ViewChoice(out, input, MaxPerPage), MaxPerPage)
    /\ QueryOnly

NextView ==
    \/ CreateFile
    \/ CreateTable
    \/ MenuImport
    \/ ViewOpen
    \/ ViewInput

SpecView == InitBrowser /\ [][NextView]_vars

----------------------------------------------------------------------------
(* Two processes on one store: a writer (import_from_json or update_database,
   its statements in one transaction that is then committed or rolled back)
   and a Browser that queries the file meanwhile.  reader.commits lists the
   committed stores from the reader's connect on, reader.reads the one each
   of its queries read. *)

\* commits of the writer while one export runs
MaxCommits == 1

\* What the writer runs: the import of a one-record document, or the upsert
\* of a batch in which one tool, the first, was extracted.
WriterJobs ==
    {ImportToolStatements(With(ImportRecord("exported", n), "upstream_url", "u")) :
        n \in ToolNames}
        \cup {UpdateStatements(<< Details("multi", "a") >>, <<>>, 0)}

\* the reader is between its connect and its close
Reading == reader.call \in {"export", "details"} /\ reader.at # "closed"

\* what a query of another process reads while the writer's transaction is open
Visible == InTransaction(db, conn)

\* the writer connects and executes its statements, uncommitted
WriterBegin ==
    /\ Idle
    /\ Reading => Len(reader.commits) <= MaxCommits
    /\ \E job \in WriterJobs :
          /\ conn' = RunFrom(Connect(db), job, 1, now)
          /\ prog' = job
          /\ ip' = Len(job)
    /\ op' = "writer"
    /\ ret' = "none"
    /\ pre' = db
    /\ UNCHANGED <<db, now, arg, doc, pos, cur>>
    /\ UNCHANGED qvars

\* conn.commit(), conn.close()
WriterCommit ==
    /\ Running({"writer"})
    /\ ~conn.err
    /\ db' = Commit(db, conn)
    /\ ret' = "True"
    /\ conn' = Connect(EmptyStore)
    /\ reader' = IF Reading THEN [reader EXCEPT !.commits = Append(@, Commit(db, conn))]
                 ELSE reader
    /\ UNCHANGED <<now, op, pre, arg, doc, pos, cur, prog, ip, file, out, output, details,
                   current_field>>

\* conn.rollback(), conn.close(); or the writer's process ends before its commit
WriterRollback ==
    /\ Running({"writer"})
    /\ db' = Rollback(db, conn)
    /\ ret' = "False"
    /\ conn' = Connect(EmptyStore)
    /\ UNCHANGED <<now, op, pre, arg, doc, pos, cur, prog, ip>>
    /\ UNCHANGED qvars

\* a variant that counts the tools of the category, each once
CountDistinctTools(store, category) ==
    Cardinality({store.tool_categories[k].tool_name :
                    k \in {j \in 1..Len(store.tool_categories) :
                              store.tool_categories[j].category_name = category}})

\* COUNT(tool_name) of the group of `category`: its membership rows
CountToolName(store, category) ==
    Cardinality({k \in 1..Len(store.tool_categories) :
                    store.tool_categories[k].category_name = category})

\* ORDER BY category_name, over the category names of the model
CategoryOrder == << "", "blackarch-scan", "blackarch-uncategorized", "blackarch-web" >>

\* list_categories: None without membership rows, else the rows
\* (category_name, tool_count) in the order of the names
ListCategories(store) ==
    LET names == SelectSeq(CategoryOrder,
                     LAMBDA c : \E k \in 1..Len(store.tool_categories) :
                                    store.tool_categories[k].category_name = c)
    IN  IF names = <<>>
        THEN [returned |-> "None"]
        ELSE [returned |-> "rows",
              rows     |-> [k \in 1..Len(names) |->
                               << names[k], CountToolName(store, names[k]) >>]]

\* list_tools_in_category: None without rows, else the names of the joined
\* rows, ORDER BY t.tool_name
ListToolsInCategory(store, category) ==
    LET joined == JoinCategory(store, category)
        tools  == Flatten([i \in 1..Len(NameOrder) |->
                              SelectSeq(joined, LAMBDA r : r.tool_name = NameOrder[i])])
    IN  IF tools = <<>>
        THEN [returned |-> "None"]
        ELSE [returned |-> "rows", rows |-> [k \in 1..Len(tools) |-> tools[k].tool_name]]

\* choice "1" of interactive_mode: list_categories, and list_tools_in_category
\* of the category whose number is typed
ListCategory ==
    /\ Idle
    /\ ListCategories(db).returned # "None"
    /\ \E idx \in 1..Len(ListCategories(db).rows) :
          reader' = [call       |-> "categories",
                     categories |-> ListCategories(db).rows,
                     idx        |-> idx,
                     tools      |-> ListToolsInCategory(db, ListCategories(db).rows[idx][1])]
    /\ UNCHANGED <<db, now, op, ret, pre, conn, arg, doc, pos, cur, prog, ip, file, out,
                   output, details, current_field>>

\* the dependencies query of the export for `row`, embedded in the row
EmbedDependencies(store, row) ==
    LET deps == DependenciesOf(store, row.tool_name)
    IN  With(row, "dependencies",
             [k \in 1..Len(deps) |-> [name |-> deps[k][1], optional |-> Bool(deps[k][2])]])

\* the categories query of the export for `tool`, embedded in it
EmbedCategories(store, tool) ==
    With(tool, "categories", CategoriesOf(store, tool.tool_name))

\* export_tools_to_json, no filter: get_connection()
ExportBegin ==
    /\ ~Reading
    /\ reader' = [call |-> "export", name |-> NULL, at |-> "tools", tools |-> <<>>,
                  document |-> <<>>, commits |-> << db >>, reads |-> <<>>]
    /\ UNCHANGED <<db, now, op, ret, pre, conn, arg, doc, pos, cur, prog, ip, file, out,
                   output, details, current_field>>

\* cursor.execute(base_query), fetchall(): the rows of tools as the file has
\* them now, in some order; with no row the loop is empty and the connection
\* is closed
ExportSelectTools ==
    /\ Reading
    /\ reader.call = "export"
    /\ reader.at = "tools"
    /\ \E order \in RowOrders(Visible) :
          reader' = [reader EXCEPT
                        !.tools = order,
                        !.reads = Append(@, Len(reader.commits)),
                        !.at = IF order = <<>> THEN "closed" ELSE "dependencies"]
    /\ UNCHANGED <<db, now, op, ret, pre, conn, arg, doc, pos, cur, prog, ip, file, out,
                   output, details, current_field>>

\* `for tool in tools`: the SELECT on dependencies for the next tool
ExportSelectDependencies ==
    /\ Reading
    /\ reader.call = "export"
    /\ reader.at = "dependencies"
    /\ reader' = [reader EXCEPT
                     !.document = Append(@, EmbedDependencies(Visible,
                                                reader.tools[Len(@) + 1])),
                     !.reads = Append(@, Len(reader.commits)),
                     !.at = "categories"]
    /\ UNCHANGED <<db, now, op, ret, pre, conn, arg, doc, pos, cur, prog, ip, file, out,
                   output, details, current_field>>

\* the SELECT on tool_categories for the same tool; after the last tool,
\* conn.close()
ExportSelectCategories ==
    /\ Reading
    /\ reader.call = "export"
    /\ reader.at = "categories"
    /\ reader' = [reader EXCEPT
                     !.document = [@ EXCEPT ![Len(@)] = EmbedCategories(Visible, @)],
                     !.reads = Append(@, Len(reader.commits)),
                     !.at = IF Len(reader.document) = Len(reader.tools)
                            THEN "closed" ELSE "dependencies"]
    /\ UNCHANGED <<db, now, op, ret, pre, conn, arg, doc, pos, cur, prog, ip, file, out,
                   output, details, current_field>>

\* ORDER BY is_optional, dependency_name, over the dependency names of the model
DependencyOrder == << "x", "y" >>

OrderDependencies(deps) ==
    Flatten([opt \in 1..2 |->
        Flatten([i \in 1..Len(DependencyOrder) |->
            SelectSeq(deps, LAMBDA d : d[2] = opt - 1 /\ d[1] = DependencyOrder[i])])])

\* ORDER BY category_name
OrderCategories(categories) ==
    Flatten([i \in 1..Len(CategoryOrder) |->
                SelectSeq(categories, LAMBDA c : c = CategoryOrder[i])])

\* show_tool_details(tool_name): get_connection()
LookupBegin ==
    /\ ~Reading
    /\ \E tool_name \in ToolNames :
          reader' = [call |-> "details", name |-> tool_name, at |-> "tools", tools |-> <<>>,
                     document |-> <<>>, commits |-> << db >>, reads |-> <<>>]
    /\ UNCHANGED <<db, now, op, ret, pre, conn, arg, doc, pos, cur, prog, ip, file, out,
                   output, details, current_field>>

\* SELECT * FROM tools WHERE tool_name = ?, fetchone(); `if not tool:` the
\* connection is closed and the function returns
LookupSelectTool ==
    /\ Reading
    /\ reader.call = "details"
    /\ reader.at = "tools"
    /\ \E order \in RowOrders([Visible EXCEPT
                                  !.tools = {r \in @ : r.tool_name = reader.name}]) :
          reader' = [reader EXCEPT
                        !.tools = order,
                        !.reads = Append(@, Len(reader.commits)),
                        !.at = IF order = <<>> THEN "closed" ELSE "dependencies"]
    /\ UNCHANGED <<db, now, op, ret, pre, conn, arg, doc, pos, cur, prog, ip, file, out,
                   output, details, current_field>>

\* the SELECT on dependencies of show_tool_details
LookupSelectDependencies ==
    /\ Reading
    /\ reader.call = "details"
    /\ reader.at = "dependencies"
    /\ reader' = [reader EXCEPT
                     !.document = << With(reader.tools[1], "dependencies",
                                          OrderDependencies(
                                              DependenciesOf(Visible, reader.name))) >>,
                     !.reads = Append(@, Len(reader.commits)),
                     !.at = "categories"]
    /\ UNCHANGED <<db, now, op, ret, pre, conn, arg, doc, pos, cur, prog, ip, file, out,
                   output, details, current_field>>

\* the SELECT on tool_categories of show_tool_details, and conn.close()
LookupSelectCategories ==
    /\ Reading
    /\ reader.call = "details"
    /\ reader.at = "categories"
    /\ reader' = [reader EXCEPT
                     !.document = << With(@[1], "categories",
                                          OrderCategories(
                                              CategoriesOf(Visible, reader.name))) >>,
                     !.reads = Append(@, Len(reader.commits)),
                     !.at = "closed"]
    /\ UNCHANGED <<db, now, op, ret, pre, conn, arg, doc, pos, cur, prog, ip, file, out,
                   output, details, current_field>>

\* a writer and a Browser that exports or looks a tool up, their steps in any order
NextShared ==
    \/ WriterBegin
    \/ WriterCommit
    \/ WriterRollback
    \/ ExportBegin
    \/ ExportSelectTools
    \/ ExportSelectDependencies
    \/ ExportSelectCategories
    \/ LookupBegin
    \/ LookupSelectTool
    \/ LookupSelectDependencies
    \/ LookupSelectCategories

SpecShared == Init /\ [][NextShared]_vars

\* one writer after another
NextWriter ==
    \/ WriterBegin
    \/ WriterCommit
    \/ WriterRollback

SpecWriter == Init /\ [][NextWriter]_vars

\* writers, and the category lists in between
NextCounts ==
    \/ WriterBegin
    \/ WriterCommit
    \/ WriterRollback
    \/ ListCategory

SpecCounts == Init /\ [][NextCounts]_vars

----------------------------------------------------------------------------
(* Properties *)

ImportKinds == {"import", "reimport", "roundtrip"}

\* the rows of tool t in the three tables
ToolState(s, t) ==
    [rows         |-> {r \in s.tools : r.tool_name = t},
     dependencies |-> DependenciesOf(s, t),
     categories   |-> CategoriesOf(s, t)]

\* C1: whenever import_from_json fails (the file cannot be read or parsed, or
\* a tool record raises), it returns False and the committed store is what it
\* was before the call.
C1_FailedImportReturnsFalse ==
    (op = "import" /\ ret \notin {"none", "True"}) => (ret = "False" /\ db = pre)

\* The part of C1 that holds of the code: however an import ends short of its
\* commit, the committed store is what it was before the call.
FailedImportKeepsStore ==
    (op \in ImportKinds /\ ret \notin {"none", "True"}) => db = pre

\* the last record of the document that names tool t
LastRecordOf(tools, t) ==
    LET ks == {k \in 1..Len(tools) : Get(tools[k], "tool_name", NULL) = t}
    IN  tools[CHOOSE k \in ks : \A j \in ks : j <= k]

Named(tools) == {Get(tools[k], "tool_name", NULL) : k \in 1..Len(tools)}

\* a tools row without its last_updated column
WithoutLastUpdated(r) == [c \in DOMAIN r \ {"last_updated"} |-> r[c]]

\* C2 as claimed: the second import of a document leaves the store identical
\* to the store after the first, last_updated included, for any document.
C2_ReimportIdentical ==
    (op = "reimport" /\ ret = "True") => db = pre

\* C2 amended: the second import of a document succeeds and leaves the
\* dependency and category rows and every column but last_updated identical;
\* last_updated is identical too for every tool whose last record in the
\* document carries 'last_updated'.
C2_ReimportIdenticalButTimestamp ==
    /\ (op = "reimport" /\ ret # "none") => ret = "True"
    /\ (op = "reimport" /\ ret = "True") =>
          /\ db.dependencies = pre.dependencies
          /\ db.tool_categories = pre.tool_categories
          /\ {WithoutLastUpdated(r) : r \in db.tools}
                = {WithoutLastUpdated(r) : r \in pre.tools}
          /\ Cardinality(db.tools) = Cardinality(pre.tools)
          /\ \A r \in db.tools :
                (r.tool_name \notin Named(doc)
                   \/ "last_updated" \in DOMAIN LastRecordOf(doc, r.tool_name))
                => r \in pre.tools

C2_Witness ==
    /\ op = "reimport"
    /\ ret = "True"
    /\ Len(doc) >= 2
    /\ db # pre
    /\ \E r \in db.tools : r \in pre.tools /\ r.tool_name \in Named(doc)
    /\ db.dependencies # <<>>

\* C3: an unfiltered export followed by the import of the written document
\* succeeds and leaves the same tool names and, for every tool, the same
\* dependencies (name and optional flag) and the same categories.
C3_RoundTrip ==
    /\ (op = "roundtrip" /\ ret # "none") => ret = "True"
    /\ (op = "roundtrip" /\ ret = "True") =>
          /\ {r.tool_name : r \in db.tools} = {r.tool_name : r \in pre.tools}
          /\ \A t \in ToolNames :
                /\ DependenciesOf(db, t) = DependenciesOf(pre, t)
                /\ CategoriesOf(db, t) = CategoriesOf(pre, t)

C3_Witness ==
    /\ op = "roundtrip"
    /\ ret = "True"
    /\ Cardinality(db.tools) = 2
    /\ \E k \in 1..Len(db.dependencies) : db.dependencies[k].is_optional = 1
    /\ \E k \in 1..Len(db.dependencies) : db.dependencies[k].is_optional = 0
    /\ \E r \in db.tools : r.upstream_url = NULL
    /\ \E r \in db.tools : r.primary_category = ""

\* C4: while an import runs, and after its process stopped before the commit,
\* the committed store holds for every tool the complete rows from before the
\* import.
C4_CrashKeepsCommitted ==
    (op \in ImportKinds /\ ret \in {"none", "killed"}) =>
        /\ db.tools = pre.tools
        /\ \A t \in ToolNames :
              /\ DependenciesOf(db, t) = DependenciesOf(pre, t)
              /\ CategoriesOf(db, t) = CategoriesOf(pre, t)

\* the process stopped when the tool's old rows were deleted and only some of
\* the new ones inserted
C4_Witness ==
    /\ op = "import"
    /\ ret = "killed"
    /\ ip > 4
    /\ ip < Len(prog)
    /\ DependenciesOf(pre, cur.tool_name) # <<>>
    /\ DependenciesOf(conn.s, cur.tool_name) # DependenciesOf(pre, cur.tool_name)

\* what one update_database call can write for tool t, into a store that has
\* no row of t
UpsertResults ==
    [t \in ToolNames |->
        {ToolState(UpdateDatabase(EmptyStore, << Details(profile, t) >>, scraped, time).db, t) :
            profile \in Profiles, scraped \in ScrapeResults, time \in 0..MaxTime}]

\* the rows of t are those one update_database call writes for it, or t has no row
CompleteUpsert(s, t) ==
    \/ ToolState(s, t) = ToolState(EmptyStore, t)
    \/ ToolState(s, t) \in UpsertResults[t]

\* C5: wherever a Loader run is interrupted, the committed store is the one
\* from before the interrupted update_database call, and it holds for every
\* tool the complete result of one upsert or no row at all.
C5_InterruptKeepsConsistent ==
    /\ (op = "loader" /\ ret \in {"none", "killed"}) => db = pre
    /\ \A t \in ToolNames : CompleteUpsert(db, t)

\* interrupted in the middle of the statements of a tool that had rows
C5_Witness ==
    /\ op = "loader"
    /\ ret = "killed"
    /\ ip >= 4
    /\ ip < Len(prog)
    /\ CategoriesOf(pre, cur.tool_name) # <<>>
    /\ CategoriesOf(conn.s, cur.tool_name) # CategoriesOf(pre, cur.tool_name)

\* C6: a tool of the batch whose statements completed before the interruption
\* is in the committed store afterwards, as that upsert wrote it.
C6_ProcessedToolsCommitted ==
    (op = "loader" /\ ret = "killed") =>
        \A j \in 1..Len(Batch(arg.i)) :
            (j < pos \/ (j = pos /\ ip = Len(prog))) =>
                ToolState(db, Batch(arg.i)[j]) = ToolState(conn.s, Batch(arg.i)[j])

\* C7: every dependencies row and every tool_categories row names a tool that
\* has a tools row.
C7_RowsReferenceTools ==
    /\ \A k \in 1..Len(db.dependencies) : ToolExists(db, db.dependencies[k].tool_name)
    /\ \A k \in 1..Len(db.tool_categories) : ToolExists(db, db.tool_categories[k].tool_name)

\* rows of both tables are committed and an import has just failed
C7_Witness ==
    /\ op = "import"
    /\ ret = "False"
    /\ Len(db.dependencies) > 1
    /\ Len(db.tool_categories) > 1
    /\ Cardinality(db.tools) = 2

\* the upsert of the current iteration has been executed
UpsertExecuted ==
    /\ op # "none"
    /\ ret = "none"
    /\ Len(prog) >= 2
    /\ ip >= 2

\* C8: there is one tools row per name, and the upsert of a name that exists
\* (in the store, or written earlier by the same call) does not fail: the row
\* then holds the values of the new record.
C8_OneRowPerName ==
    /\ \A s \in {db, conn.s} :
          \A r1, r2 \in s.tools : r1.tool_name = r2.tool_name => r1 = r2
    /\ (UpsertExecuted /\ Get(cur, "version", "") # NULL) =>
          /\ ip = 2 => ~conn.err
          /\ \E r \in conn.s.tools :
                /\ r.tool_name = cur.tool_name
                /\ r.version = Get(cur, "version", "")
                /\ r.primary_category = Get(cur, "primary_category", "")

\* the second record of a document overwrites the row the first one inserted
C8_Witness ==
    /\ op = "import"
    /\ UpsertExecuted
    /\ ip = 2
    /\ pos = 2
    /\ conn.exists
    /\ ~ToolExists(pre, cur.tool_name)
    /\ ~conn.err

\* an iteration of the loop has executed all its statements
AtRecordEnd ==
    /\ op # "none"
    /\ ret = "none"
    /\ Len(prog) > 1
    /\ ip = Len(prog)
    /\ ~conn.err

\* the dependency rows a record stands for: (name, optional flag), in order
RecordDependencies(kind, record) ==
    IF kind = "loader"
    THEN [k \in 1..(Len(record.dependencies) + Len(record.optdepends)) |->
            IF k <= Len(record.dependencies)
            THEN << record.dependencies[k], 0 >>
            ELSE << record.optdepends[k - Len(record.dependencies)], 1 >>]
    ELSE LET deps == Get(record, "dependencies", <<>>)
         IN  [k \in 1..Len(deps) |->
                << deps[k].name, IF Get(deps[k], "optional", FALSE) = TRUE THEN 1 ELSE 0 >>]

\* the categories a record stands for
RecordCategories(kind, record) ==
    IF kind = "loader"
    THEN {record.primary_category}
         \cup {record.groups[k] : k \in {j \in 1..Len(record.groups) :
                                            StartsWithBlackarch(record.groups[j])}}
    ELSE LET cats == Get(record, "categories", <<>>)
         IN  {cats[k] : k \in 1..Len(cats)}

\* how many category rows one write of the record inserts
RecordCategoryCount(kind, record) ==
    IF kind = "loader"
    THEN 1 + Cardinality({j \in 1..Len(record.groups) :
                             /\ StartsWithBlackarch(record.groups[j])
                             /\ record.groups[j] # record.primary_category})
    ELSE Len(Get(record, "categories", <<>>))

\* C9: after the write of a tool its dependency rows are exactly the
\* dependencies of the new record and its category rows exactly the record's
\* categories, as many as one write of the record inserts, whatever rows the
\* tool had before.
C9_FullReplace ==
    AtRecordEnd =>
        LET rows == CategoriesOf(conn.s, cur.tool_name)
        IN  /\ DependenciesOf(conn.s, cur.tool_name) = RecordDependencies(op, cur)
            /\ {rows[k] : k \in 1..Len(rows)} = RecordCategories(op, cur)
            /\ Len(rows) = RecordCategoryCount(op, cur)

\* the Loader has rewritten a tool that had other rows
C9_Witness ==
    /\ op = "loader"
    /\ AtRecordEnd
    /\ DependenciesOf(pre, cur.tool_name) # <<>>
    /\ DependenciesOf(pre, cur.tool_name) # DependenciesOf(conn.s, cur.tool_name)
    /\ CategoriesOf(pre, cur.tool_name) # CategoriesOf(conn.s, cur.tool_name)
    /\ Len(CategoriesOf(conn.s, cur.tool_name)) < Len(CategoriesOf(pre, cur.tool_name))

\* C10: for every tools row there is a tool_categories row
\* (tool_name, primary_category).
C10_PrimaryIsMember ==
    \A r \in db.tools :
        \E k \in 1..Len(db.tool_categories) :
            /\ db.tool_categories[k].tool_name = r.tool_name
            /\ db.tool_categories[k].category_name = r.primary_category


\* the lines of the block that open `key`
KeyLines(block, key) ==
    {k \in 1..Len(block) : HasColon(block[k]) /\ KeyOf(block[k]) = key}

\* the words of the lines from k on, up to the next line that has a colon
RECURSIVE Continuation(_, _)
Continuation(block, k) ==
    IF k > Len(block) \/ HasColon(block[k]) THEN <<>>
    ELSE block[k] \o Continuation(block, k + 1)

\* the values on the line of `key` and on its continuation lines
ExpectedList(block, key) ==
    IF KeyLines(block, key) = {} THEN <<>>
    ELSE LET k == CHOOSE j \in KeyLines(block, key) : TRUE
         IN  ValueWords(block[k]) \o Continuation(block, k + 1)

\* each of the three list keys opens at most one field
WellFormed(block) ==
    \A key \in {"depends on", "optional deps", "groups"} :
        Cardinality(KeyLines(block, key)) <= 1

\* C11: for a well-formed block, each of the three lists extract_tool_details
\* returns holds the values from its key line up to the next line with a
\* colon, whatever that line's key, and nothing from the lines after it.
C11_ListsEndAtNextKey ==
    (op = "extract" /\ ret = "details" /\ WellFormed(output)) =>
        /\ details.dependencies = ExpectedList(output, "depends on")
        /\ details.optdepends = ExpectedList(output, "optional deps")
        /\ details.groups = ExpectedList(output, "groups")

\* C12: the primary category of a parsed tool is the first entry of its group
\* list that starts with 'blackarch-', the sentinel when there is none, and
\* never empty.
C12_PrimaryIsFirstPrefixed ==
    (op = "extract" /\ ret = "details") =>
        LET ks == {k \in 1..Len(details.groups) : StartsWithBlackarch(details.groups[k])}
        IN  /\ ks = {} => details.primary_category = Uncategorized
            /\ ks # {} =>
                  details.primary_category = details.groups[CHOOSE k \in ks : \A j \in ks : k <= j]
            /\ details.primary_category # ""

\* the bare group comes first, two prefixed groups follow on two lines
C12_Witness ==
    /\ op = "extract"
    /\ ret = "details"
    /\ Len(details.groups) = 3
    /\ details.groups[1] = "blackarch"
    /\ details.primary_category = "blackarch-web"
    /\ details.groups[3] = "blackarch-scan"


\* C13: in a batch of main(), a tool whose extraction failed has after the
\* batch the rows it had before it (none, if it had none); every other tool
\* of the batch has the rows of its details; the tools of other batches are
\* left alone; and the run goes on to the next batch.
C13_FailedToolSkipped ==
    (op = "main" /\ out.call = "batch") =>
        /\ \A k \in 1..Len(out.batch) :
              LET t == out.batch[k]
              IN  IF out.choice[k] = "failed"
                  THEN ToolState(db, t) = ToolState(pre, t)
                  ELSE LET d    == Details(out.choice[k], t)
                           cats == CategoriesOf(db, t)
                       IN  /\ \E r \in db.tools :
                                 /\ r.tool_name = t
                                 /\ r.version = d.version
                                 /\ r.primary_category = d.primary_category
                           /\ DependenciesOf(db, t) = RecordDependencies("loader", d)
                           /\ {cats[j] : j \in 1..Len(cats)} = RecordCategories("loader", d)
        /\ \A t \in {r.tool_name : r \in db.tools \cup pre.tools} :
              (\A k \in 1..Len(out.batch) : out.batch[k] # t) =>
                  ToolState(db, t) = ToolState(pre, t)
        /\ ret \in {"none", "None"}
        /\ arg.i = out.i + batch_size
        /\ ret = "None" => arg.i >= Len(extract_blackarch_tools)

\* the first tool of the list had rows and its extraction failed in the first
\* batch of this run; the second tool was rewritten in that batch, and the
\* batch after it has written the last tool
C13_Witness ==
    /\ op = "main"
    /\ out.call = "batch"
    /\ out.i = batch_size
    /\ "a" \in out.failed
    /\ ToolExists(db, "a")
    /\ \E k \in 1..Len(out.batch) : out.choice[k] # "failed"
    /\ db # pre


\* the name of rank k (1 is the first) among the tools of the store
NameOfRank(store, k) ==
    CHOOSE n \in {r.tool_name : r \in store.tools} :
        Cardinality({r \in store.tools :
                        \E i, j \in 1..Len(NameOrder) :
                            /\ NameOrder[i] = r.tool_name
                            /\ NameOrder[j] = n
                            /\ i < j}) = k - 1

\* C14: for T tools and page size P, list_all_tools(k, P) returns the tools of
\* ranks (k-1)*P+1 .. min(k*P, T) in name order, numbered by their ranks, and
\* reports ceil(T/P) pages; a page past the last returns no row.
C14_PagesWithinRanks ==
    out.call = "list_all_tools" =>
        LET T  == Cardinality(db.tools)
            P  == out.per_page
            lo == (out.page - 1) * P + 1
            hi == IF out.page * P < T THEN out.page * P ELSE T
            r  == out.result
        IN  IF lo > hi
            THEN r.returned = "None"
            ELSE /\ r.returned = "dict"
                 /\ Len(r.tools) = hi - lo + 1
                 /\ \A k \in 1..Len(r.tools) :
                       /\ r.numbers[k] = lo + k - 1
                       /\ r.numbers[k] \in 1..T
                       /\ r.tools[k] = NameOfRank(db, r.numbers[k])
                 /\ r.total_pages * P >= T
                 /\ (r.total_pages - 1) * P < T

\* the last page, shorter than a full page
C14_Witness ==
    /\ out.call = "list_all_tools"
    /\ out.per_page = 2
    /\ out.page = 2
    /\ Cardinality(db.tools) = 3
    /\ out.result.returned = "dict"
    /\ out.result.tools = << "c" >>
    /\ out.result.total_pages = 2


\* the categories two tools of the store share
SharedCategories(store, t1, t2) ==
    Range(CategoriesOf(store, t1)) \cap Range(CategoriesOf(store, t2))

\* C15: find_related_tools(t) never lists t, never lists more than 5 tools,
\* and lists a tool that shares more distinct categories with t before a tool
\* that shares fewer.
C15_RankedBySharedCategories ==
    out.call = "find_related_tools" =>
        LET r == out.result
            shared(k) == Cardinality(SharedCategories(db, out.tool_name, r[k][1]))
        IN  /\ \A k \in 1..Len(r) : r[k][1] # out.tool_name
            /\ Len(r) <= 5
            /\ \A i, j \in 1..Len(r) : shared(i) > shared(j) => i < j


\* term occurs in text, letters compared as the collation compares them
Occurs(term, text) ==
    \E i \in 0..(Len(text) - Len(term)) :
        \A k \in 1..Len(term) : FoldCase(text[i + k]) = FoldCase(term[k])

\* the tools in whose name or descriptions the term occurs literally
LiteralMatches(store, term) ==
    {r.tool_name : r \in {q \in store.tools :
        \E col \in {"tool_name", "short_description", "long_description"} :
            q[col] # NULL /\ Occurs(Chars(term), Chars(q[col]))}}

\* C19: search_tools(term) returns exactly the tools in whose name, short or
\* long description the term occurs as a literal substring, also for terms
\* with '%' or '_'; the export by search selects the same tools.
C19_SearchIsLiteralSubstring ==
    /\ out.call = "search_tools" =>
          Range(out.result.tools) = LiteralMatches(db, out.term)
    /\ (out.call = "export_tools_to_json" /\ out.filter_type = "search") =>
          {n \in Range(NameOrder) : out.document.count[n] > 0}
              = LiteralMatches(db, out.filter_value)

\* C18: with filter type 'tools' and a name list L the document holds exactly
\* the tools of the store named in L, each once, for every L, the empty list
\* included; with filter type 'category' it holds each tool of the category
\* once.
C18_ExportSelectsNamedTools ==
    /\ (out.call = "export_tools_to_json" /\ out.filter_type = "tools") =>
          \A n \in Range(NameOrder) :
              out.document.count[n] =
                  IF ToolExists(db, n) /\ n \in Range(out.filter_value) THEN 1 ELSE 0
    /\ (out.call = "export_tools_to_json" /\ out.filter_type = "category") =>
          \A n \in Range(NameOrder) :
              out.document.count[n] =
                  IF ToolExists(db, n) /\ out.filter_value \in Range(CategoriesOf(db, n))
                  THEN 1 ELSE 0

\* The part of C18 that holds of the code: the same for every list but the
\* empty one.
ExportSelectsNamedToolsOfNonEmptyList ==
    /\ (out.call = "export_tools_to_json" /\ out.filter_type = "tools"
           /\ out.filter_value # <<>>) =>
          \A n \in Range(NameOrder) :
              out.document.count[n] =
                  IF ToolExists(db, n) /\ n \in Range(out.filter_value) THEN 1 ELSE 0
    /\ (out.call = "export_tools_to_json" /\ out.filter_type = "category") =>
          \A n \in Range(NameOrder) :
              out.document.count[n] =
                  IF ToolExists(db, n) /\ out.filter_value \in Range(CategoriesOf(db, n))
                  THEN 1 ELSE 0


\* C16: a run of the Browser ends with exit code 1, before any query, when
\* the store file is missing, and in no other case: with the store file in
\* place no query failure ends the process with an error.
C16_OnlyMissingStoreIsFatal ==
    out.call = "main" =>
        IF out.store_file.exists
        THEN out.exit = 0 /\ out.error = "none"
        ELSE out.exit = 1 /\ out.branch = "none"

\* The part of C16 that holds of the code: the missing file ends the run with
\* exit code 1 before any query, and with all tables in place no run fails.
MissingStoreExitsBeforeQuery ==
    out.call = "main" =>
        /\ ~out.store_file.exists => (out.exit = 1 /\ out.branch = "none")
        /\ out.store_file = Initialized => (out.exit = 0 /\ out.error = "none")

\* the tools of the store in a category
InCategory(store, category) ==
    {n \in Range(NameOrder) :
        ToolExists(store, n) /\ category \in Range(CategoriesOf(store, n))}

\* the tools in a written document
Exported(document) == {n \in Range(NameOrder) : document.count[n] > 0}

\* C17: with no listing flag on the command line, --export-category C writes
\* the tools of category C with filter type 'category', with or without
\* -e FILE; --export-search S likewise; and the unfiltered document is
\* written only when -e is given alone.
C17_ExportFlagsSelect ==
    (/\ out.call = "main"
     /\ out.exit = 0
     /\ ~Given(out.args.category)
     /\ ~Given(out.args.search)
     /\ ~Given(out.args.tool)
     /\ ~out.args.all) =>
        /\ Given(out.args.export_category) =>
              /\ out.written # NoDocument
              /\ out.written.document.filter.type = "category"
              /\ Exported(out.written.document) = InCategory(db, out.args.export_category)
        /\ (Given(out.args.export_search) /\ ~Given(out.args.export_category)) =>
              /\ out.written # NoDocument
              /\ out.written.document.filter.type = "search"
              /\ Exported(out.written.document)
                    = {r.tool_name : r \in SearchRows(db, out.args.export_search)}
        /\ (out.written # NoDocument /\ out.written.document.filter.type = NULL) =>
              (~Given(out.args.export_category) /\ ~Given(out.args.export_search))


\* this step is the upsert of the current iteration, and it did not raise
UpsertStep ==
    /\ op \in {"import", "loader"}
    /\ ret = "none"
    /\ Len(prog) >= 2
    /\ ip = 1
    /\ ip' = 2
    /\ ~conn'.err

\* C20 as claimed: the upsert of a tool, by the Loader or by import, sets
\* last_updated to the time of the write, and never to less than the row had.
C20_LastUpdatedIsWriteTime ==
    [][UpsertStep =>
          \E r \in conn'.s.tools :
             /\ r.tool_name = cur.tool_name
             /\ r.last_updated = now
             /\ \A q \in conn.s.tools :
                   q.tool_name = cur.tool_name => q.last_updated <= r.last_updated]_vars

\* C20 amended: the Loader's upsert sets last_updated to the time read at the
\* start of the update_database call, which is not later than the write; the
\* import's upsert sets it to the record's 'last_updated' when the record
\* carries one, and to the time of the write otherwise.
C20_LastUpdatedFromCallOrRecord ==
    [][UpsertStep =>
          \E r \in conn'.s.tools :
             /\ r.tool_name = cur.tool_name
             /\ op = "loader" => (r.last_updated = arg.current_time /\ r.last_updated <= now)
             /\ op = "import" => r.last_updated = Get(cur, "last_updated", now)]_vars

\* an import has overwritten, with the older time of its record, the row the
\* Loader wrote
C20_Witness ==
    /\ op = "import"
    /\ UpsertExecuted
    /\ ip = 2
    /\ ~conn.err
    /\ "last_updated" \in DOMAIN cur
    /\ \E r \in conn.s.tools, q \in pre.tools :
          /\ r.tool_name = cur.tool_name
          /\ q.tool_name = cur.tool_name
          /\ r.last_updated < q.last_updated
          /\ q.help_command = HelpCommand(q.tool_name)
          /\ q.upstream_url = NULL


\* the calls the run of a list makes from the batch starting at i on, batch
\* by batch: the extraction of each tool of the batch, the scrape in the
\* first batch, the upsert, the validation
RECURSIVE CallsOfRun(_, _)
CallsOfRun(list, i) ==
    IF i >= Len(list) THEN <<>>
    ELSE [k \in 1..Len(Slice(list, i, i + batch_size)) |-> [step |-> "extract", i |-> i]]
         \o (IF i = 0 THEN << [step |-> "scrape", i |-> 0] >> ELSE <<>>)
         \o << [step |-> "update", i |-> i], [step |-> "validate", i |-> i] >>
         \o CallsOfRun(list, i + batch_size)

\* the calls the run has made so far
CallsMade == [k \in 1..Len(out.log) |-> [step |-> out.log[k].step, i |-> out.log[k].i]]

\* the tools of the batches after the first
LaterTools == {extract_blackarch_tools[k] : k \in (batch_size + 1)..Len(extract_blackarch_tools)}

\* C21: the calls of a Loader run are, batch after batch, the extraction of
\* every tool of the batch, then (in the first batch only) the scrape, then
\* the upsert, then the validation; a validation that returned False leaves
\* the run running, and a run that returns has made all these calls, the
\* scrape once; the tools of later batches have their short description as
\* long description.
C21_ScrapeOnceAndBatchOrder ==
    op = "run" =>
        LET expected == CallsOfRun(out.tools_list, 0)
        IN  /\ Len(CallsMade) <= Len(expected)
            /\ \A k \in 1..Len(CallsMade) : CallsMade[k] = expected[k]
            /\ Cardinality({k \in 1..Len(out.log) : out.log[k].step = "scrape"}) <= 1
            /\ (out.log # <<>> /\ out.log[Len(out.log)].step = "validate") =>
                  /\ ret \in {"none", "None"}
                  /\ out.at \in {"loop", "extract", "returned"}
            /\ out.at = "returned" => CallsMade = expected
            /\ \A r \in db.tools :
                  r.tool_name \in LaterTools => r.long_description = r.short_description

\* a run of two batches has returned although the validation of its first
\* batch returned False; its one scrape gave the first tool a long
\* description, and the tool of the second batch was written
C21_Witness ==
    /\ op = "run"
    /\ out.at = "returned"
    /\ Len(out.log) > batch_size + 3
    /\ \E k \in 1..Len(out.log) :
          /\ out.log[k].step = "validate"
          /\ out.log[k].i = 0
          /\ ~out.log[k].ok
    /\ \E k \in 1..Len(out.log) : out.log[k].step = "scrape"
    /\ \E r \in db.tools : r.tool_name = "a" /\ r.long_description # r.short_description
    /\ \E r \in db.tools : r.tool_name \in LaterTools


\* C22: whenever a database interaction of the Loader's run (update_database,
\* quick_validation) has returned, the connection it opened is closed: no
\* connection of an earlier call is open at any point of main().
C22_ConnectionsClosed ==
    op = "run" => out.open = {}


\* the position on the page shown of the tool displayed with number n, 0 if
\* no tool is displayed with it
Displayed(view, n) ==
    IF \E k \in 1..Len(view.result.numbers) : view.result.numbers[k] = n
    THEN CHOOSE k \in 1..Len(view.result.numbers) : view.result.numbers[k] = n
    ELSE 0

\* C23: in the list-all view the page shown is within 1..total_pages after
\* every input; 'n' on the last page and 'p' on the first leave the page as it
\* is, elsewhere they move one page; 'b' returns to the main menu and 'q' ends
\* interactive mode; a typed number opens the details of the tool displayed
\* with that number on the page, and a number that is not displayed is
\* answered with "Invalid tool number." and opens nothing.
C23_ViewStaysWithinPages ==
    [][Viewing =>
          LET input == out'.input
              last  == TotalPages(Cardinality(db.tools), MaxPerPage)
          IN  /\ out.page \in 1..last
              /\ out'.call = "view"
              /\ out'.at = "list" => out'.page \in 1..last
              /\ input \in {"n", "N"} =>
                    /\ out'.at = "list"
                    /\ out'.page = IF out.page = last THEN out.page ELSE out.page + 1
              /\ input = "p" =>
                    /\ out'.at = "list"
                    /\ out'.page = IF out.page = 1 THEN out.page ELSE out.page - 1
              /\ input = "b" => out'.at = "menu"
              /\ input = "q" => out'.at = "quit"
              /\ IsInt(input) =>
                    /\ out'.at = "list"
                    /\ out'.page = out.page
                    /\ IF Displayed(out, ToInt(input)) # 0
                       THEN /\ out'.shown = out.result.tools[Displayed(out, ToInt(input))]
                            /\ out'.shown = NameOfRank(db, ToInt(input))
                            /\ out'.message = "none"
                       ELSE /\ out'.shown = NULL
                            /\ out'.message = "Invalid tool number."
              /\ ~IsInt(input) => out'.shown = NULL /\ out'.message = "none"]_vars

\* on the second and last page of the view 'n' was typed, and then the
\* number of the page's first tool, whose details are open
C23_Witness ==
    /\ Viewing
    /\ out.page = 2
    /\ out.page = out.result.total_pages
    /\ out.input = Digits[MaxPerPage + 1]
    /\ out.shown = NameOfRank(db, MaxPerPage + 1)


\* C24: the tool count list_categories reports for a category is the number
\* of rows list_tools_in_category returns for it, in every store the writers
\* leave, duplicate membership rows included.
C24_CountsAgreeWithListings ==
    reader.call = "categories" =>
        /\ reader.tools.returned = "rows"
        /\ reader.categories[reader.idx][2] = Len(reader.tools.rows)

\* a category is reported with three tools and listed with three rows, of
\* which two are the same tool's
C24_Witness ==
    /\ reader.call = "categories"
    /\ reader.categories[reader.idx][2] = 3
    /\ reader.tools.returned = "rows"
    /\ Len(reader.tools.rows) = 3
    /\ Cardinality(Range(reader.tools.rows)) = 2


\* the tools the writer's statements name
NamedByWriter == {prog[k].name : k \in 1..Len(prog)}

\* the writer is update_database
LoaderWrites == Len(prog) >= 2 /\ prog[2].op = "upsert_loader"

\* C25: a writer changes, in its connection and in the committed store, the
\* rows of no tool but those its batch or document names; no step removes a
\* tools row; and a Loader update of an existing tool leaves the tool's
\* upstream_url as it was.
C25_WritersChangeOnlyNamedTools ==
    [][/\ \A r \in db.tools : ToolExists(db', r.tool_name)
       /\ Running({"writer"}) =>
             /\ \A t \in ToolNames \ NamedByWriter :
                   /\ ToolState(conn.s, t) = ToolState(pre, t)
                   /\ ToolState(db', t) = ToolState(db, t)
             /\ \A r \in pre.tools : ToolExists(conn.s, r.tool_name)
             /\ LoaderWrites =>
                   \A r \in db.tools : \A q \in db'.tools :
                       q.tool_name = r.tool_name => q.upstream_url = r.upstream_url]_vars

\* the Loader has rewritten, and committed, a tool that an import had given
\* an upstream_url, next to another tool that has rows of its own
C25_Witness ==
    /\ op = "writer"
    /\ ret = "True"
    /\ LoaderWrites
    /\ db # pre
    /\ \E r \in db.tools :
          /\ r.tool_name \in NamedByWriter
          /\ r.upstream_url = "u"
          /\ r.version = "2"
    /\ \E t \in ToolNames \ NamedByWriter : DependenciesOf(db, t) # <<>>


\* the document a finished export would hold had all its queries read `store`
ExportOf(store) == {ExportTool(store, r) : r \in store.tools}

\* what show_tool_details(name) would show had all its queries read `store`
LookupOf(store, name) ==
    {With(With(r, "dependencies", OrderDependencies(DependenciesOf(store, name))),
          "categories", OrderCategories(CategoriesOf(store, name))) :
        r \in {q \in store.tools : q.tool_name = name}}

\* C26: what an export, or a tool-detail lookup, that ran while a writer
\* committed has read is the export, or the details, of one committed
\* store: of the store at its connect or of one committed since.
C26_ExportReflectsOneState ==
    (reader.call \in {"export", "details"} /\ reader.at = "closed") =>
        \E j \in 1..Len(reader.commits) :
            LET single == IF reader.call = "export"
                          THEN ExportOf(reader.commits[j])
                          ELSE LookupOf(reader.commits[j], reader.name)
            IN  /\ Range(reader.document) = single
                /\ Len(reader.document) = Cardinality(single)

\* Each query of an export or of a tool-detail lookup reads one committed
\* store, the one committed last when the query runs, never a writer's
\* uncommitted rows: the tool rows are those of the store the first query
\* read, a tool's dependencies those of the store its second query read, its
\* categories those of the store its third query read, and no query reads an
\* older store than the query before it.
C26_EachQueryReadsCommitted ==
    reader.call \in {"export", "details"} =>
        LET commits == reader.commits
            reads   == reader.reads
            stored(k) == commits[reads[k]]
            selected(store) == IF reader.call = "export" THEN store.tools
                               ELSE {r \in store.tools : r.tool_name = reader.name}
        IN  /\ \A k \in 1..Len(reads) :
                  /\ reads[k] \in 1..Len(commits)
                  /\ k > 1 => reads[k - 1] <= reads[k]
            /\ reads # <<>> =>
                  /\ Range(reader.tools) = selected(stored(1))
                  /\ Len(reader.tools) = Cardinality(selected(stored(1)))
            /\ \A k \in 1..Len(reader.document) :
                  LET tool == reader.document[k]
                      row  == reader.tools[k]
                      deps == DependenciesOf(stored(2 * k), row.tool_name)
                      cats == CategoriesOf(stored(2 * k + 1), row.tool_name)
                  IN  /\ \A c \in DOMAIN row : tool[c] = row[c]
                      /\ tool.dependencies
                            = IF reader.call = "export"
                              THEN EmbedDependencies(stored(2 * k), row).dependencies
                              ELSE OrderDependencies(deps)
                      /\ "categories" \in DOMAIN tool =>
                            tool.categories = IF reader.call = "export" THEN cats
                                              ELSE OrderCategories(cats)

\* a finished export whose tool row was read before a commit of the writer
\* and whose categories were read after it, and differ from those the tool
\* had when the row was read
C26_Witness ==
    /\ reader.call = "export"
    /\ reader.at = "closed"
    /\ Len(reader.commits) = 2
    /\ reader.reads[1] = 1
    /\ reader.reads[Len(reader.reads)] = 2
    /\ \E k \in 1..Len(reader.document) :
          reader.document[k].categories
              # CategoriesOf(reader.commits[1], reader.document[k].tool_name)

====
